---- MODULE Spec2Model ----
(***************************************************************************)
(* A model of the market-analytics engine of pol-real-estate:              *)
(*   - the daily snapshot task (backend/app/tasks/snapshot_tasks.py) over  *)
(*     the listings, currency_rates and barrio_snapshots tables;           *)
(*   - the buy-to-rent ROI simulation with its Newton-Raphson IRR search   *)
(*     (backend/app/services/analytics_service.py).                        *)
(*   - the heatmap of the map service with its polygon fill and weight    *)
(*     normalisation (backend/app/services/map_service.py);                *)
(*   - the choropleth, trend, ranking and price-distribution queries       *)
(*     (map_service.py, barrio_service.py, analytics_service.py);          *)
(*   - the percentiles of the seed script (backend/scripts/seed.py);       *)
(*   - the clusters of the map service (map_service.py).                   *)
(* Each subsystem has its own specifications (SpecSnap, SpecCounts,        *)
(* SpecRace, SpecRates; SpecRoi; SpecHeat, SpecBox; SpecQuery; SpecDist,   *)
(* SpecHist; SpecSeed, SpecPct; SpecCluster); the variables of the other   *)
(* subsystems stay at their initial values.                                *)
(***************************************************************************)
EXTENDS Integers, Sequences, FiniteSets, TLC

\* SQL NULL / Python None in a numeric column or local: a value no column
\* holds.
NULL == 0 - 1000000

----------------------------------------------------------------------------
(* Bounds of the snapshot model. *)

\* Rows the ingestion may insert into listings.
MaxListings == 2
\* Last calendar day (days are numbered from 0).
MaxDay == 8
\* Runs of compute_daily_snapshots.
MaxRuns == 2
\* Runs of fetch_and_save_rates.
MaxRates == 1

\* Barrio.id values present in the barrios table.
Barrios == {1, 2}
\* Days the calendar may advance by in one step (a week, a week and a day).
DaySteps == {7, 8}
\* The CSV rows the ingestion may insert, after barrio assignment and price
\* conversion: prices in USD, surfaces in m2.  price_usd_blue is nullable
\* and Numeric(14,2) (an ARS price worth less than half a cent is stored as
\* 0.00); surface_covered is whatever the file holds, or NULL.
CsvRows ==
    { [barrio_id |-> 1, operation_type |-> "sale", price |-> 100,  surface |-> 2, dom |-> NULL],
      [barrio_id |-> 1, operation_type |-> "sale", price |-> 300,  surface |-> 2, dom |-> 45],
      [barrio_id |-> 1, operation_type |-> "rent", price |-> 0,    surface |-> 2, dom |-> NULL],
      [barrio_id |-> 2, operation_type |-> "sale", price |-> NULL, surface |-> 0, dom |-> 45] }
\* The longest list compute_percentiles is called with on its own.
MaxValues == 4
\* The blue sell value DolarAPI reports at instant t (it drifts upwards).
BlueSellAt(at) == 1200 + 100 * at

----------------------------------------------------------------------------
(* Exact rationals <<n, d>> (d > 0) for SQL numeric arithmetic. *)

Rat(n, d) == <<n, d>>
\* NULL / None where a rational is expected.
RatNull == <<0, 0>>
RatAdd(a, b) == <<a[1] * b[2] + b[1] * a[2], a[2] * b[2]>>
RatSub(a, b) == <<a[1] * b[2] - b[1] * a[2], a[2] * b[2]>>
RatScale(a, n, d) == <<a[1] * n, a[2] * d>>
RatLe(a, b) == a[1] * b[2] <= b[1] * a[2]
RatIsZero(a) == a[1] = 0

\* Python round(x, k) of a non-negative value: x scaled by 10^k, rounded
\* half to even; the result is an integer count of 10^-k units.
RoundScaled(a, scale) ==
    LET n == a[1] * scale
        q == n \div a[2]
        r == n % a[2]
    IN  IF 2 * r < a[2] THEN q
        ELSE IF 2 * r > a[2] THEN q + 1
        ELSE IF q % 2 = 0 THEN q ELSE q + 1

----------------------------------------------------------------------------
(* Python floats, as decimal floating point: a finite value is m * 10^e    *)
(* with m = 0 or 8 significant digits (10^7 <= |m| < 10^8), every          *)
(* operation rounds its exact result half to even, and the exponent range  *)
(* is that of an IEEE double.  inf, -inf and nan carry the exponent        *)
(* SpecialExp.                                                             *)

Ten7 == 10 * 1000000      \* least normalised mantissa
Ten8 == 10 * Ten7         \* first value above the mantissas
Ten4 == 10 * 1000         \* the limb of the double-length products and sums
\* sys.float_info.max is 1.797e308: the leading digit's exponent is at most 308.
MaxExp10 == 300 + 8
\* The least subnormal double is 4.9e-324.
MinExp10 == 0 - 324
SpecialExp == 999 + 0

F(m, e) == [m |-> m, e |-> e]
FZero == F(0, 0)
FNaN == F(0, SpecialExp)
FInf(sign) == F(sign, SpecialExp)
\* What an operation stands for when Python raises instead of returning.
OverflowError == F(2, SpecialExp)
ZeroDivisionError == F(3, SpecialExp)
\* Python's None where a float is expected.
None == F(4, SpecialExp)

IsSpecial(x) == x.e = SpecialExp
IsNaN(x) == x.e = SpecialExp /\ x.m = 0
IsInf(x) == x.e = SpecialExp /\ (x.m = 1 \/ x.m = -1)
IsRaise(x) == x = OverflowError \/ x = ZeroDivisionError
IsZero(x) == x.e # SpecialExp /\ x.m = 0

Abs(n) == IF n < 0 THEN 0 - n ELSE n
Sign(n) == IF n < 0 THEN 0 - 1 ELSE IF n > 0 THEN 1 ELSE 0

RECURSIVE Pow10(_)
Pow10(k) == IF k = 0 THEN 1 ELSE 10 * Pow10(k - 1)

\* q + 1 when the discarded part is above half, or is half and q is odd.
\* `cmp` is the sign of (discarded part - half).
RoundHalfEven(q, cmp) ==
    IF cmp > 0 \/ (cmp = 0 /\ q % 2 = 1) THEN q + 1 ELSE q

\* The range of a double: overflow gives inf, underflow gives 0.
Clamp(sign, mag, e) ==
    IF e + 7 > MaxExp10 THEN FInf(sign)
    ELSE IF e + 7 < MinExp10 THEN FZero
    ELSE F(sign * mag, e)

\* A rounded magnitude mag * 10^e with 10^7 <= mag <= 10^8, in range.
Ranged(sign, mag, e) ==
    IF mag = Ten8 THEN Clamp(sign, Ten7, e + 1) ELSE Clamp(sign, mag, e)

\* The float of q * 10^e plus a discarded part.
Rounded(sign, q, cmp, e) == Ranged(sign, RoundHalfEven(q, cmp), e)

\* An exact integer n * 10^e with 0 < n < 10^8, normalised.
RECURSIVE ScaleUp(_, _, _)
ScaleUp(sign, n, e) ==
    IF n >= Ten7 THEN Clamp(sign, n, e) ELSE ScaleUp(sign, n * 10, e - 1)

\* a * 10^e without its last digits below p, a power of ten.
RoundDigits(sign, a, p, e) ==
    Rounded(sign, a \div p, Sign(2 * (a % p) - p), e)

\* The float nearest to the integer n * 10^e, |n| < 2 * 10^9.
FromInt(n, e) ==
    IF n = 0 THEN FZero
    ELSE IF Abs(n) < Ten8 THEN ScaleUp(Sign(n), Abs(n), e)
    ELSE IF Abs(n) < 10 * Ten8 THEN RoundDigits(Sign(n), Abs(n), 10, e + 1)
    ELSE RoundDigits(Sign(n), Abs(n), 100, e + 2)

FNeg(x) == IF IsNaN(x) THEN x ELSE F(0 - x.m, x.e)
FAbs(x) == IF IsNaN(x) THEN x ELSE F(Abs(x.m), x.e)

\* The product hi * 10^8 + lo of two mantissas, rounded.
MulRound(sg, hi, lo, e) ==
    IF hi >= Ten7
    THEN Rounded(sg, hi, Sign(lo - 5 * Ten7), e + 8)
    ELSE Rounded(sg, hi * 10 + lo \div Ten7,
                 Sign((lo % Ten7) - 5 * (Ten7 \div 10)), e + 7)

\* high * 10^8 + mid * 10^4 + low, as hi * 10^8 + lo.
MulSum(sg, high, mid, low, e) ==
    MulRound(sg,
             high + mid \div Ten4 + ((mid % Ten4) * Ten4 + low) \div Ten8,
             ((mid % Ten4) * Ten4 + low) % Ten8, e)

\* (a1 * 10^4 + a0) * (b1 * 10^4 + b0)
MulLimbs(sg, a1, a0, b1, b0, e) ==
    MulSum(sg, a1 * b1, a1 * b0 + a0 * b1, a0 * b0, e)

\* x * y.
FMul(x, y) ==
    IF IsNaN(x) \/ IsNaN(y) THEN FNaN
    ELSE IF IsInf(x) \/ IsInf(y)
         THEN IF x.m = 0 \/ y.m = 0 THEN FNaN ELSE FInf(Sign(x.m) * Sign(y.m))
    ELSE IF x.m = 0 \/ y.m = 0 THEN FZero
    ELSE MulLimbs(Sign(x.m) * Sign(y.m),
                  Abs(x.m) \div Ten4, Abs(x.m) % Ten4,
                  Abs(y.m) \div Ten4, Abs(y.m) % Ten4, x.e + y.e)

\* Long division: <<the first `digits` digits of r / b after acc, remainder>>.
RECURSIVE LongDiv(_, _, _, _)
LongDiv(acc, r, b, digits) ==
    IF digits = 0 THEN <<acc, r>>
    ELSE LongDiv(acc * 10 + (r * 10) \div b, (r * 10) % b, b, digits - 1)

\* The quotient qr[1] with remainder qr[2] of a division by b, rounded.
DivRound(sg, qr, b, e) == Rounded(sg, qr[1], Sign(2 * qr[2] - b), e)

\* a / b for mantissas a, b: eight digits of the quotient of r0.
DivDigits(sg, r0, b, e) ==
    DivRound(sg, LongDiv(r0 \div b, r0 % b, b, 7), b, e)

\* x / y; a zero divisor raises ZeroDivisionError.
FDiv(x, y) ==
    IF IsZero(y) THEN ZeroDivisionError
    ELSE IF IsNaN(x) \/ IsNaN(y) THEN FNaN
    ELSE IF IsInf(x) THEN IF IsInf(y) THEN FNaN ELSE FInf(Sign(x.m) * Sign(y.m))
    ELSE IF IsInf(y) \/ x.m = 0 THEN FZero
    ELSE IF Abs(x.m) >= Abs(y.m)
    THEN DivDigits(Sign(x.m) * Sign(y.m), Abs(x.m), Abs(y.m), x.e - y.e - 7)
    ELSE DivDigits(Sign(x.m) * Sign(y.m), Abs(x.m) * 10, Abs(y.m), x.e - y.e - 8)

\* |x| >= |y| for finite non-zero x, y.
MagGe(x, y) == x.e > y.e \/ (x.e = y.e /\ Abs(x.m) >= Abs(y.m))

\* The sign of (rem - half), `more` deciding when they are equal.
Tie(rem, half, more) == IF rem # half THEN Sign(rem - half) ELSE more

\* The magnitude h * 10^4 + l (and `more` below it) in units of
\* 10^(e - 4), rounded to eight digits.
AddRound(sg, h, l, more, e) ==
    IF h >= Ten8
    THEN Rounded(sg, h \div 10,
                 Tie(h % 10, 5, IF l > 0 \/ more > 0 THEN 1 ELSE 0), e + 1)
    ELSE IF h >= Ten7 THEN Rounded(sg, h, Tie(l, 5000, more), e)
    ELSE IF h >= Ten7 \div 10
    THEN Rounded(sg, h * 10 + l \div 1000, Tie(l % 1000, 500, more), e - 1)
    ELSE IF h >= Ten7 \div 100
    THEN Rounded(sg, h * 100 + l \div 100, Tie(l % 100, 50, more), e - 2)
    ELSE IF h >= Ten4
    THEN Rounded(sg, h * 1000 + l \div 10, Tie(l % 10, 5, more), e - 3)
    ELSE IF h = 0 /\ l = 0 THEN FZero
    ELSE ScaleUp(sg, h * Ten4 + l, e - 4)

\* The mantissa b, diff digits lower, in units of 10^-4 of the higher
\* mantissa's unit: <<yh, yl, more>>, b = yh * 10^4 + yl and whether digits
\* remain below.
Shifted(b, diff) ==
    IF diff <= 4
    THEN <<b \div Pow10(diff), (b % Pow10(diff)) * Pow10(4 - diff), 0>>
    ELSE <<(b \div Pow10(diff - 4)) \div Ten4,
           (b \div Pow10(diff - 4)) % Ten4,
           IF b % Pow10(diff - 4) # 0 THEN 1 ELSE 0>>

\* a * 10^4 - (yh * 10^4 + sl), as <<h, l>>.
Borrowed(a, yh, sl) ==
    << a - (yh + sl \div Ten4) - (IF sl % Ten4 > 0 THEN 1 ELSE 0),
       (Ten4 - (sl % Ten4)) % Ten4 >>

\* a * 10^4 plus or minus the shifted mantissa y, as <<h, l>>; when
\* subtracting, one unit more is taken and the digits below add.
Summed(same, a, y) ==
    IF same THEN <<a + y[1], y[2]>> ELSE Borrowed(a, y[1], y[2] + y[3])

AddParts(sg, hl, more, e) == AddRound(sg, hl[1], hl[2], more, e)

AddShifted(sg, same, a, y, e) == AddParts(sg, Summed(same, a, y), y[3], e)

\* x + y for finite non-zero x, y with |x| >= |y|: the exact sum of the
\* magnitudes, four digits below x's last one, rounded once.
AddOrdered(x, y) ==
    IF x.e - y.e > 12 THEN x
    ELSE AddShifted(Sign(x.m), Sign(x.m) = Sign(y.m), Abs(x.m),
                    Shifted(Abs(y.m), x.e - y.e), x.e)

\* x + y.
FAdd(x, y) ==
    IF IsNaN(x) \/ IsNaN(y) THEN FNaN
    ELSE IF IsInf(x) THEN IF IsInf(y) /\ x.m # y.m THEN FNaN ELSE x
    ELSE IF IsInf(y) THEN y
    ELSE IF x.m = 0 THEN y
    ELSE IF y.m = 0 THEN x
    ELSE IF MagGe(x, y) THEN AddOrdered(x, y) ELSE AddOrdered(y, x)

FSub(x, y) == FAdd(x, FNeg(y))

\* x < y (False when either is nan).
FLt(x, y) ==
    IF IsNaN(x) \/ IsNaN(y) THEN FALSE
    ELSE IF IsInf(x) \/ IsInf(y)
         THEN (IsInf(x) /\ x.m < 0 /\ ~(IsInf(y) /\ y.m < 0))
              \/ (IsInf(y) /\ y.m > 0 /\ ~(IsInf(x) /\ x.m > 0))
    ELSE IF Sign(x.m) # Sign(y.m) THEN Sign(x.m) < Sign(y.m)
    ELSE IF x.m = 0 THEN FALSE
    ELSE IF x.m > 0 THEN x.e < y.e \/ (x.e = y.e /\ x.m < y.m)
    ELSE x.e > y.e \/ (x.e = y.e /\ x.m < y.m)

FLe(x, y) == FLt(x, y) \/ (~IsNaN(x) /\ ~IsNaN(y) /\ x = y)

\* float.__pow__ raises OverflowError when the result is out of range.
PowChecked(r, p, x) ==
    IF IsInf(r) /\ ~IsInf(p) /\ ~IsInf(x) THEN OverflowError ELSE r

PowStep(p, x) == IF IsRaise(p) THEN p ELSE PowChecked(FMul(p, x), p, x)

\* x ** n for an int n >= 0; an underflow gives 0.0 silently.
RECURSIVE FPow(_, _)
FPow(x, n) == IF n = 0 THEN F(Ten7, 0 - 7) ELSE PowStep(FPow(x, n - 1), x)

\* |x| = a * 10^e with e < -2, rounded at the digit of 10^-2.
RoundAt(sign, a, p) ==
    FromInt(sign * RoundHalfEven(a \div p, Sign(2 * (a % p) - p)), 0 - 2)

\* round(x, 2).
FRound2(x) ==
    IF IsSpecial(x) \/ x.m = 0 \/ x.e >= 0 - 2 THEN x
    ELSE IF 0 - 2 - x.e > 8 THEN FZero
    ELSE RoundAt(Sign(x.m), Abs(x.m), Pow10(0 - 2 - x.e))

\* |x| = a * 10^e with e < -4, rounded at the digit of 10^-4.
RoundAt4(sign, a, p) ==
    FromInt(sign * RoundHalfEven(a \div p, Sign(2 * (a % p) - p)), 0 - 4)

\* round(x, 4).
FRound4(x) ==
    IF IsSpecial(x) \/ x.m = 0 \/ x.e >= 0 - 4 THEN x
    ELSE IF 0 - 4 - x.e > 8 THEN FZero
    ELSE RoundAt4(Sign(x.m), Abs(x.m), Pow10(0 - 4 - x.e))

\* int(x) for a finite x of small magnitude: the digits before the point.
FInt(x) ==
    IF x.m = 0 \/ x.e < 0 - 8 THEN 0
    ELSE IF x.e >= 0 THEN x.m * Pow10(x.e)
    ELSE Sign(x.m) * (Abs(x.m) \div Pow10(0 - x.e))

\* min(a, b) and max(a, b) of two finite floats (the first on a tie).
FMin(a, b) == IF FLt(b, a) THEN b ELSE a
FMax(a, b) == IF FLt(a, b) THEN b ELSE a

\* math.sqrt(a) for a finite a > 0, by Heron's iteration x <- (x + a / x) / 2
\* from a first guess with half the exponent; eight steps reach the
\* working precision from any first guess within a factor of ten.
Half == F(5 * Ten7, 0 - 8)

RECURSIVE Heron(_, _, _)
Heron(a, x, k) ==
    IF k = 0 THEN x ELSE Heron(a, FMul(Half, FAdd(x, FDiv(a, x))), k - 1)

SqrtGuess(a) == F(3 * Ten7, (a.e + 7 - ((a.e + 7) % 2)) \div 2 - 7)

FSqrt(a) == IF a.m = 0 THEN FZero ELSE Heron(a, SqrtGuess(a), 8)

----------------------------------------------------------------------------
VARIABLES
    \* --- database tables ---
    listings,          \* listings: id -> row
    currency_rates,    \* currency_rates: sequence of rows in insert order
    barrio_snapshots,  \* barrio_snapshots: committed rows
    snapshot_id_seq,   \* the autoincrement sequence of barrio_snapshots.id
    \* --- the clock ---
    today,             \* date.today()
    clock,             \* datetime.now(), a strictly increasing instant
    \* --- one run of compute_daily_snapshots ---
    task_pc,           \* position of the run
    session_rows,      \* barrio_snapshots as the run's open transaction sees it
    blue_rate,         \* blue_rate local
    run_date,          \* today local
    todo,              \* (barrio_id, op_type) pairs the loops have yet to visit
    stats_row,         \* row of the statistics query for the current group
    new_count,         \* new_count local
    removed_count,     \* removed_count local
    written,           \* written local
    runs,              \* runs started so far
    run_listings,      \* history: the listings table when the run started
    last_run           \* history: <<what the last committed run read>>, or <<>>

snapVars == <<listings, currency_rates, barrio_snapshots, snapshot_id_seq,
              today, clock, task_pc, session_rows, blue_rate, run_date, todo,
              stats_row, new_count, removed_count, written, runs,
              run_listings, last_run>>

\* simulate_roi: one call, from its argument to its return value or exception.
VARIABLES
    roi_pc,               \* position of the call
    params,               \* the argument
    initial_cost, current_rent, property_value,
    total_rental_income, total_expenses,
    year,                 \* the projection loop's variable
    cash_flows_for_irr, yearly_cashflows,
    guess, iteration,     \* _compute_irr: the guess and the loop's counter
    t, npv, d_npv,        \* _compute_irr: the inner loop's index and sums
    irr,                  \* what _compute_irr returned
    result,               \* <<the returned dict>>, <<>> before the return
    error                 \* the exception raised, "" if none

roiVars == <<roi_pc, params, initial_cost, current_rent, property_value,
             total_rental_income, total_expenses, year, cash_flows_for_irr,
             yearly_cashflows, guess, iteration, t, npv, d_npv, irr, result,
             error>>

\* The map endpoints: the reference table they read and their calls.
VARIABLES
    barrios,   \* barrios: id -> row
    heat,      \* get_heatmap_data: caller -> the locals of the caller's call
    rng        \* random.Random instances: generator -> values drawn so far

heatVars == <<barrios, heat, rng>>

\* The calls of get_choropleth_data, get_barrio_trends, get_barrio_ranking
\* and get_price_distribution, and of the seed script's seed_snapshots.
VARIABLES
    query,     \* the locals of the query in progress
    seed,      \* the locals of the seed script's seed_snapshots
    request    \* self.request of compute_daily_snapshots and what retry raised

queryVars == <<query, seed, request>>

\* The variables neither the snapshot task nor simulate_roi touches.
appVars == <<heatVars, queryVars>>

vars == <<snapVars, roiVars, appVars>>

\* No call of simulate_roi in progress.
RoiLocalsInit ==
    /\ initial_cost = FZero
    /\ current_rent = FZero
    /\ property_value = FZero
    /\ total_rental_income = FZero
    /\ total_expenses = FZero
    /\ year = 0
    /\ cash_flows_for_irr = <<>>
    /\ yearly_cashflows = <<>>
    /\ guess = FZero
    /\ iteration = 0
    /\ t = 0
    /\ npv = FZero
    /\ d_npv = FZero
    /\ irr = None
    /\ result = <<>>
    /\ error = ""

RoiIdle == roi_pc = "idle" /\ params = <<>> /\ RoiLocalsInit

\* The callers of the map endpoints that may be in flight together; each
\* makes one request.
Procs == {1, 2}

\* The bbox query parameter: absent, or the text the client sent together
\* with the box <<west, south, east, north>> the text stands for.
NoBBox == [given |-> FALSE, text |-> <<>>, box |-> <<>>]

\* The locals of get_heatmap_data and its helpers before a call.  `source`
\* and `calls` are history: the branch get_heatmap_data took and the
\* finished calls of _fill_polygon_with_points, as
\* [geojson, target_count, points].
HeatLocals ==
    [ pc             |-> "idle",
      operation_type |-> "",
      bbox           |-> NoBBox,
      source         |-> "",
      todo           |-> <<>>,
      price          |-> FZero,
      geojson        |-> <<>>,
      target_count   |-> 0,
      polygons       |-> <<>>,
      min_lon        |-> FZero,
      max_lon        |-> FZero,
      min_lat        |-> FZero,
      max_lat        |-> FZero,
      cell_size      |-> FZero,
      lat            |-> FZero,
      lon            |-> FZero,
      points         |-> <<>>,
      calls          |-> <<>>,
      all_points     |-> <<>>,
      all_prices     |-> <<>>,
      response       |-> <<>>,
      error          |-> "" ]

\* No call of a map endpoint in progress (the columns of barrios that only
\* the map endpoints read are left out).
\* No heatmap request is in progress.
HeatCallersIdle ==
    /\ heat = [p \in Procs |-> HeatLocals]
    /\ rng = [p \in Procs |-> 0]

HeatIdle ==
    /\ barrios = <<>>
    /\ HeatCallersIdle

\* The locals of a query before the call.
QueryLocals ==
    [ pc             |-> "idle",
      fn             |-> "",
      metric         |-> "",
      operation_type |-> "",
      slug           |-> "",
      order          |-> "",
      barrio_id      |-> NULL,
      bins           |-> 0,
      bbox           |-> NoBBox,
      zoom           |-> 0,
      executed       |-> <<>>,
      range_row      |-> <<>>,
      rows           |-> <<>>,
      response       |-> <<>>,
      error          |-> "" ]

\* The locals of seed_snapshots before the call.
SeedLocals ==
    [ pc     |-> "idle",
      stream |-> 0,
      groups |-> <<>>,
      i      |-> 0,
      values |-> <<>>,
      batch  |-> <<>>,
      stats  |-> <<>> ]

\* The request of a task invocation that was not retried.
RequestInit == [retries |-> 0, raised |-> ""]

QueryIdle == query = QueryLocals /\ seed = SeedLocals /\ request = RequestInit

AppIdle == HeatIdle /\ QueryIdle

----------------------------------------------------------------------------
(* The queries of the snapshot task. *)

\* SQL equality: NULL = x is never true.
SqlEq(a, b) == a # NULL /\ b # NULL /\ a = b

\* The value a Numeric(.., k) column stores for a float rounded to k
\* decimals, in units of 10^-k; NULL for None.
ToUnits(x, k) ==
    IF x = None THEN NULL
    ELSE IF x.m = 0 THEN 0
    ELSE IF x.e + k >= 0 THEN x.m * Pow10(x.e + k)
    ELSE Sign(x.m) * (Abs(x.m) \div Pow10(0 - (x.e + k)))

\* The first blue row of the table, whatever its time.
_get_latest_blue_rate_Unordered(rates) ==
    IF {i \in DOMAIN rates : rates[i].rate_type = "blue"} = {} THEN None
    ELSE FromInt(rates[CHOOSE j \in DOMAIN rates :
                          /\ rates[j].rate_type = "blue"
                          /\ \A k \in 1..(j - 1) : rates[k].rate_type # "blue"].sell, 0)

\* SELECT sell FROM currency_rates WHERE rate_type = 'blue'
\* ORDER BY recorded_at DESC LIMIT 1, and float(row) of the Numeric(12, 4)
\* it returns; None without a row.
_get_latest_blue_rate(rates) ==
    LET blue == {i \in DOMAIN rates : rates[i].rate_type = "blue"}
    IN  IF blue = {} THEN None
        ELSE LET i == CHOOSE j \in blue :
                          \A k \in blue : rates[k].recorded_at <= rates[j].recorded_at
             IN  FromInt(rates[i].sell, 0)

\* The WHERE clause of the statistics query.
StatsWhere(l, barrio_id, operation_type) ==
    /\ l.barrio_id = barrio_id
    /\ l.operation_type = operation_type
    /\ l.is_active = TRUE
    /\ l.price_usd_blue # NULL
    /\ l.surface_covered_m2 # NULL
    /\ l.surface_covered_m2 > 0

StatsIds(ls, barrio_id, operation_type) ==
    {i \in DOMAIN ls : StatsWhere(ls[i], barrio_id, operation_type)}

\* price_usd_blue / NULLIF(surface_covered_m2, 0) of a selected row.
UnitPrice(l) == Rat(l.price_usd_blue, l.surface_covered_m2)

\* The unit prices of the rows `ids`, in ascending order (WITHIN GROUP ORDER BY).
RECURSIVE SortedUnitPrices(_, _)
SortedUnitPrices(ls, ids) ==
    IF ids = {} THEN <<>>
    ELSE LET m == CHOOSE i \in ids :
                      \A j \in ids : RatLe(UnitPrice(ls[i]), UnitPrice(ls[j]))
         IN  <<UnitPrice(ls[m])>> \o SortedUnitPrices(ls, ids \ {m})

RECURSIVE RatSum(_)
RatSum(seq) ==
    IF seq = <<>> THEN Rat(0, 1) ELSE RatAdd(Head(seq), RatSum(Tail(seq)))

\* AVG(expr): NULL over no rows.
SqlAvg(seq) ==
    IF seq = <<>> THEN RatNull ELSE RatScale(RatSum(seq), 1, Len(seq))

\* PERCENTILE_CONT(num/4) WITHIN GROUP (ORDER BY expr): linear interpolation
\* at row number num/4 * (n - 1), counted from 0; NULL over no rows.
PercentileCont(sorted, num) ==
    IF sorted = <<>> THEN RatNull
    ELSE LET n    == Len(sorted)
             pos  == num * (n - 1)
             lo   == pos \div 4
             frac == pos % 4
             hi   == IF frac = 0 THEN lo ELSE lo + 1
         IN  RatAdd(sorted[lo + 1],
                    RatScale(RatSub(sorted[hi + 1], sorted[lo + 1]), frac, 4))

\* days_on_market of the selected rows that have one, as rationals.
RECURSIVE DomValues(_, _)
DomValues(ls, ids) ==
    IF ids = {} THEN <<>>
    ELSE LET m == CHOOSE i \in ids : \A j \in ids : i <= j
             rest == DomValues(ls, ids \ {m})
         IN  IF ls[m].days_on_market = NULL THEN rest
             ELSE <<Rat(ls[m].days_on_market, 1)>> \o rest

\* The one row the statistics query returns.
StatsRow(ls, barrio_id, operation_type) ==
    LET ids    == StatsIds(ls, barrio_id, operation_type)
        sorted == SortedUnitPrices(ls, ids)
    IN  [ listing_count       |-> Cardinality(ids),
          avg_price_usd_m2    |-> SqlAvg(sorted),
          median_price_usd_m2 |-> PercentileCont(sorted, 2),
          p25_price_usd_m2    |-> PercentileCont(sorted, 1),
          p75_price_usd_m2    |-> PercentileCont(sorted, 3),
          avg_days_on_market  |-> SqlAvg(DomValues(ls, ids)) ]

\* func.date(ts) >= seven_days_ago with seven_days_ago = snapshot_date - 7.
InWindow(day, snapshot_date) == day >= snapshot_date - 7

NewCount(ls, barrio_id, operation_type, snapshot_date) ==
    Cardinality({i \in DOMAIN ls :
        /\ ls[i].barrio_id = barrio_id
        /\ ls[i].operation_type = operation_type
        /\ ls[i].is_active = TRUE
        /\ InWindow(ls[i].first_seen_at, snapshot_date)})

RemovedCount(ls, barrio_id, operation_type, snapshot_date) ==
    Cardinality({i \in DOMAIN ls :
        /\ ls[i].barrio_id = barrio_id
        /\ ls[i].operation_type = operation_type
        /\ ls[i].is_active = FALSE
        /\ InWindow(ls[i].last_seen_at, snapshot_date)})

\* `round(x, k) if x else None`: None and 0 are both falsy.  The result
\* counts units of 10^-k (scale = 10^k).
RoundOrNone(x, scale) ==
    IF x = RatNull \/ RatIsZero(x) THEN NULL ELSE RoundScaled(x, scale)

\* The dict _compute_snapshot_for_group returns for a non-empty group.
SnapshotData(row, barrio_id, operation_type, snapshot_date, new, removed) ==
    [ barrio_id           |-> barrio_id,
      snapshot_date       |-> snapshot_date,
      operation_type      |-> operation_type,
      property_type       |-> NULL,
      listing_count       |-> row.listing_count,
      median_price_usd_m2 |-> RoundOrNone(row.median_price_usd_m2, 100),
      avg_price_usd_m2    |-> RoundOrNone(row.avg_price_usd_m2, 100),
      p25_price_usd_m2    |-> RoundOrNone(row.p25_price_usd_m2, 100),
      p75_price_usd_m2    |-> RoundOrNone(row.p75_price_usd_m2, 100),
      avg_days_on_market  |-> RoundOrNone(row.avg_days_on_market, 10),
      new_listings_7d     |-> new,
      removed_listings_7d |-> removed ]

\* The unique constraint uq_barrio_snapshot (barrio_id, snapshot_date,
\* operation_type, property_type): two rows conflict when all four columns
\* are equal under SQL equality, which a NULL never satisfies.
UniqueConflict(r, data) ==
    /\ r.barrio_id = data.barrio_id            \* nullable=False
    /\ r.snapshot_date = data.snapshot_date    \* nullable=False
    /\ r.operation_type = data.operation_type  \* nullable=False
    /\ SqlEq(r.property_type, data.property_type)

\* ON CONFLICT DO UPDATE SET ...: the columns of set_ take the excluded values.
ConflictUpdate(r, data) ==
    [r EXCEPT !.listing_count       = data.listing_count,
              !.median_price_usd_m2 = data.median_price_usd_m2,
              !.avg_price_usd_m2    = data.avg_price_usd_m2,
              !.p25_price_usd_m2    = data.p25_price_usd_m2,
              !.p75_price_usd_m2    = data.p75_price_usd_m2,
              !.avg_days_on_market  = data.avg_days_on_market,
              !.new_listings_7d     = data.new_listings_7d,
              !.removed_listings_7d = data.removed_listings_7d,
              !.usd_blue_rate       = data.usd_blue_rate]

\* The row INSERT ... VALUES (**snapshot_data) adds: id from the sequence,
\* the column the task does not supply left NULL.
InsertedRow(data, id) ==
    [ id                    |-> id,
      barrio_id             |-> data.barrio_id,
      snapshot_date         |-> data.snapshot_date,
      operation_type        |-> data.operation_type,
      property_type         |-> data.property_type,
      listing_count         |-> data.listing_count,
      median_price_usd_m2   |-> data.median_price_usd_m2,
      avg_price_usd_m2      |-> data.avg_price_usd_m2,
      p25_price_usd_m2      |-> data.p25_price_usd_m2,
      p75_price_usd_m2      |-> data.p75_price_usd_m2,
      avg_days_on_market    |-> data.avg_days_on_market,
      new_listings_7d       |-> data.new_listings_7d,
      removed_listings_7d   |-> data.removed_listings_7d,
      rental_yield_estimate |-> NULL,
      usd_blue_rate         |-> data.usd_blue_rate ]

\* pg_insert(BarrioSnapshot).values(...).on_conflict_do_update(...).
UpsertSnapshot(rows, data, id) ==
    IF \E r \in rows : UniqueConflict(r, data)
    THEN {IF UniqueConflict(r, data) THEN ConflictUpdate(r, data) ELSE r : r \in rows}
    ELSE rows \cup {InsertedRow(data, id)}

\* The (barrio_id, op_type) pairs in the order the nested loops visit them.
RECURSIVE SetToSeq(_)
SetToSeq(S) ==
    IF S = {} THEN <<>>
    ELSE LET x == CHOOSE y \in S : TRUE IN <<x>> \o SetToSeq(S \ {x})

RECURSIVE LoopOrder(_, _)
LoopOrder(barrio_seq, op_seq) ==
    IF barrio_seq = <<>> THEN <<>>
    ELSE [i \in 1..Len(op_seq) |-> <<Head(barrio_seq), op_seq[i]>>]
         \o LoopOrder(Tail(barrio_seq), op_seq)

\* select(Listing.operation_type).distinct().
DistinctOperationTypes(ls) == {ls[i].operation_type : i \in DOMAIN ls}

----------------------------------------------------------------------------
(* The collaborators that write the tables the task reads. *)

\* import_properati: one CSV row becomes an active listing first seen now.
ImportRow(limit) ==
    /\ Len(listings) < limit
    /\ \E row \in CsvRows :
          listings' = Append(listings,
              [ barrio_id          |-> row.barrio_id,
                operation_type     |-> row.operation_type,
                is_active          |-> TRUE,
                price_usd_blue     |-> row.price,
                surface_covered_m2 |-> row.surface,
                days_on_market     |-> row.dom,
                first_seen_at      |-> today,
                last_seen_at       |-> today ])
    /\ UNCHANGED <<currency_rates, barrio_snapshots, snapshot_id_seq, today,
                   clock, task_pc, session_rows, blue_rate, run_date, todo,
                   stats_row, new_count, removed_count, written, runs,
                   run_listings, last_run>>
    /\ UNCHANGED <<roiVars, appVars>>

ImportListing == ImportRow(MaxListings)

\* The ingestion marks a listing that disappeared from its source inactive.
DeactivateListing ==
    /\ \E i \in DOMAIN listings :
          /\ listings[i].is_active
          /\ listings' = [listings EXCEPT ![i].is_active = FALSE]
    /\ UNCHANGED <<currency_rates, barrio_snapshots, snapshot_id_seq, today,
                   clock, task_pc, session_rows, blue_rate, run_date, todo,
                   stats_row, new_count, removed_count, written, runs,
                   run_listings, last_run>>
    /\ UNCHANGED <<roiVars, appVars>>

\* The ingestion sees a listing again that it had marked inactive.
ReactivateListing ==
    /\ \E i \in DOMAIN listings :
          /\ ~listings[i].is_active
          /\ listings' = [listings EXCEPT ![i].is_active = TRUE, ![i].last_seen_at = today]
    /\ UNCHANGED <<currency_rates, barrio_snapshots, snapshot_id_seq, today,
                   clock, task_pc, session_rows, blue_rate, run_date, todo,
                   stats_row, new_count, removed_count, written, runs,
                   run_listings, last_run>>
    /\ UNCHANGED <<roiVars, appVars>>

\* fetch_and_save_rates: one row per rate type, all recorded at `now`.
FetchRates(limit) ==
    /\ Len(currency_rates) < 2 * limit
    /\ currency_rates' = currency_rates \o
          << [rate_type |-> "official", sell |-> BlueSellAt(clock) - 200, recorded_at |-> clock],
             [rate_type |-> "blue", sell |-> BlueSellAt(clock), recorded_at |-> clock] >>
    /\ clock' = clock + 1
    /\ UNCHANGED <<listings, barrio_snapshots, snapshot_id_seq, today,
                   task_pc, session_rows, blue_rate, run_date, todo,
                   stats_row, new_count, removed_count, written, runs,
                   run_listings, last_run>>
    /\ UNCHANGED <<roiVars, appVars>>

FetchAndSaveRates == FetchRates(MaxRates)

\* Midnight passes.
AdvanceDay ==
    /\ \E d \in DaySteps :
          /\ today + d <= MaxDay
          /\ today' = today + d
    /\ UNCHANGED <<listings, currency_rates, barrio_snapshots, snapshot_id_seq,
                   clock, task_pc, session_rows, blue_rate, run_date, todo,
                   stats_row, new_count, removed_count, written, runs,
                   run_listings, last_run>>
    /\ UNCHANGED <<roiVars, appVars>>

----------------------------------------------------------------------------
(* compute_daily_snapshots, one statement at a time. *)

NoRow == [listing_count |-> 0]

\* Lines 141-166: open the session, read the rate, the barrios and the
\* operation types; return at once when either list is empty.
TaskStart ==
    /\ task_pc = "idle"
    /\ runs < MaxRuns
    /\ runs' = runs + 1
    /\ written' = 0
    /\ LET operation_types == DistinctOperationTypes(listings)
       IN  IF Barrios = {} \/ operation_types = {}
           THEN /\ session_rows' = {}
                /\ todo' = <<>>
                /\ task_pc' = "idle"
                /\ run_date' = 0
                /\ blue_rate' = NULL
                /\ run_listings' = <<>>
           ELSE /\ session_rows' = barrio_snapshots
                /\ todo' = LoopOrder(SetToSeq(Barrios), SetToSeq(operation_types))
                /\ task_pc' = "stats"
                /\ run_date' = today
                /\ blue_rate' = _get_latest_blue_rate(currency_rates)
                /\ run_listings' = listings
    /\ UNCHANGED <<listings, currency_rates, barrio_snapshots, snapshot_id_seq,
                   today, clock, stats_row, new_count, removed_count, last_run>>
    /\ UNCHANGED <<roiVars, appVars>>

\* What follows the current group: the next group, or the commit.
AfterGroup(rest) == IF rest = <<>> THEN "commit" ELSE "stats"

\* Lines 55-85: the statistics query; a group without rows is skipped.
StatsQuery ==
    /\ task_pc = "stats"
    /\ LET row == StatsRow(listings, todo[1][1], todo[1][2])
       IN  IF row.listing_count = 0
           THEN /\ todo' = Tail(todo)
                /\ task_pc' = AfterGroup(Tail(todo))
                /\ stats_row' = NoRow
           ELSE /\ todo' = todo
                /\ task_pc' = "new"
                \* `seen`: the table as the statement saw it
                /\ stats_row' = [seen |-> listings] @@ row
    /\ UNCHANGED <<listings, currency_rates, barrio_snapshots, snapshot_id_seq,
                   today, clock, session_rows, blue_rate, run_date,
                   new_count, removed_count, written, runs, run_listings, last_run>>
    /\ UNCHANGED <<roiVars, appVars>>

\* Lines 87-98.
NewCountQuery ==
    /\ task_pc = "new"
    /\ new_count' = NewCount(listings, todo[1][1], todo[1][2], run_date)
    /\ task_pc' = "removed"
    /\ UNCHANGED <<listings, currency_rates, barrio_snapshots, snapshot_id_seq,
                   today, clock, session_rows, blue_rate, run_date, todo,
                   stats_row, removed_count, written, runs, run_listings, last_run>>
    /\ UNCHANGED <<roiVars, appVars>>

\* Lines 100-111.
RemovedCountQuery ==
    /\ task_pc = "removed"
    /\ removed_count' = RemovedCount(listings, todo[1][1], todo[1][2], run_date)
    /\ task_pc' = "upsert"
    /\ UNCHANGED <<listings, currency_rates, barrio_snapshots, snapshot_id_seq,
                   today, clock, session_rows, blue_rate, run_date, todo,
                   stats_row, new_count, written, runs, run_listings, last_run>>
    /\ UNCHANGED <<roiVars, appVars>>

\* The values the upsert of the current group sends.
CurrentData ==
    [usd_blue_rate |-> ToUnits(blue_rate, 0)] @@
    SnapshotData(stats_row, todo[1][1], todo[1][2], run_date, new_count, removed_count)

\* Lines 113-126 and 176-195: build the dict, add the rate, upsert.
UpsertGroup ==
    /\ task_pc = "upsert"
    /\ session_rows' = UpsertSnapshot(session_rows, CurrentData, snapshot_id_seq)
    /\ snapshot_id_seq' = snapshot_id_seq + 1
    /\ written' = written + 1
    /\ todo' = Tail(todo)
    /\ task_pc' = AfterGroup(Tail(todo))
    \* the locals of the finished _compute_snapshot_for_group call are gone
    /\ stats_row' = NoRow
    /\ new_count' = 0
    /\ removed_count' = 0
    /\ UNCHANGED <<listings, currency_rates, barrio_snapshots, today, clock,
                   blue_rate, run_date, runs, run_listings, last_run>>
    /\ UNCHANGED <<roiVars, appVars>>

\* Line 197: session.commit() after the last group.
TaskCommit ==
    /\ task_pc = "commit"
    /\ barrio_snapshots' = session_rows
    /\ task_pc' = "idle"
    /\ last_run' = << [ snapshot_date |-> run_date,
                        blue_rate     |-> blue_rate,
                        listings      |-> run_listings,
                        stable        |-> listings = run_listings ] >>
    \* the session is closed and the locals of the run are gone
    /\ session_rows' = {}
    /\ blue_rate' = NULL
    /\ run_date' = 0
    /\ written' = 0
    /\ run_listings' = <<>>
    /\ UNCHANGED <<listings, currency_rates, snapshot_id_seq, today, clock,
                   todo, stats_row, new_count, removed_count, runs>>
    \* the task succeeded: the next invocation is a new request
    /\ request' = RequestInit
    /\ UNCHANGED <<roiVars, heatVars, query, seed>>

\* max_retries of the task's decorator.
max_retries == 2

\* Task.retry(exc=exc): a retry is scheduled and Retry raised while retries
\* remain; after the last one exc itself is raised and the request ends.
Retried(req, exc) ==
    IF req.retries < max_retries THEN [retries |-> req.retries + 1, raised |-> "Retry"]
    ELSE [retries |-> 0, raised |-> exc]

\* The pending rows become the table.
Rollback_Autocommit(table, pending) == pending

\* Leaving `with Session(engine) as session` without a commit: the
\* transaction is rolled back and the table is what was committed.
Rollback(table, pending) == table

\* Lines 198-202: a statement of the run raises (the connection is lost, a
\* value overflows its column); the session is closed and the exception
\* goes to self.retry.  The ids the sequence handed out are not given back.
TaskFails ==
    /\ task_pc \in {"stats", "new", "removed", "upsert"}
    /\ barrio_snapshots' = Rollback(barrio_snapshots, session_rows)
    /\ request' = Retried(request, "OperationalError")
    /\ task_pc' = "idle"
    /\ session_rows' = {}
    /\ blue_rate' = NULL
    /\ run_date' = 0
    /\ todo' = <<>>
    /\ stats_row' = NoRow
    /\ new_count' = 0
    /\ removed_count' = 0
    /\ written' = 0
    /\ run_listings' = <<>>
    /\ UNCHANGED <<listings, currency_rates, snapshot_id_seq, today, clock, runs, last_run>>
    /\ UNCHANGED <<roiVars, heatVars, query, seed>>

\* Everything but the two tables the map and analytics endpoints read.
TaskInit ==
    /\ currency_rates = <<>>
    /\ snapshot_id_seq = 1
    /\ today = 0
    /\ clock = 0
    /\ task_pc = "idle"
    /\ session_rows = {}
    /\ blue_rate = NULL
    /\ run_date = 0
    /\ todo = <<>>
    /\ stats_row = NoRow
    /\ new_count = 0
    /\ removed_count = 0
    /\ written = 0
    /\ runs = 0
    /\ run_listings = <<>>
    /\ last_run = <<>>

SnapshotInit ==
    /\ listings = <<>>
    /\ barrio_snapshots = {}
    /\ TaskInit

InitSnap == SnapshotInit /\ RoiIdle /\ AppIdle

\* Runs of the task with the tables at rest while a run is in progress
\* (the ingestion scripts are run by hand, the task at 3am).
NextSnap ==
    \/ task_pc = "idle" /\ ImportListing
    \/ task_pc = "idle" /\ DeactivateListing
    \/ task_pc = "idle" /\ FetchAndSaveRates
    \/ task_pc = "idle" /\ AdvanceDay
    \/ TaskStart
    \/ StatsQuery
    \/ NewCountQuery
    \/ RemovedCountQuery
    \/ UpsertGroup
    \/ TaskCommit

SpecSnap == InitSnap /\ [][NextSnap]_vars

----------------------------------------------------------------------------
(* simulate_roi and its helpers _compute_npv and _compute_irr.             *)

\* The float of a decimal literal n * 10^e.
Dec(n, e) == FromInt(n, e)
One == F(Ten7, 0 - 7)
Hundred == F(Ten7, 0 - 5)
Twelve == F(12 * (Ten7 \div 10), 0 - 6)

\* What ROISimulationRequest.model_dump() hands to simulate_roi.
ApiRequest(price, rent, years, rate) ==
    [ purchase_price_usd   |-> price,
      monthly_rent_usd     |-> rent,
      monthly_expenses_usd |-> Dec(150, 0),
      vacancy_rate         |-> Dec(5, 0 - 2),
      annual_appreciation  |-> Dec(3, 0 - 2),
      closing_costs_pct    |-> Dec(6, 0 - 2),
      holding_period_years |-> years,
      discount_rate        |-> rate ]

\* A dict with every key of simulate_roi's docstring.
ServiceRequest(price, rent, years, app, exp, vac, cc, inc) ==
    [ purchase_price_usd       |-> price,
      monthly_rent_usd         |-> rent,
      holding_period_years     |-> years,
      annual_appreciation_pct  |-> app,
      annual_expenses_pct      |-> exp,
      vacancy_rate_pct         |-> vac,
      closing_costs_pct        |-> cc,
      annual_rent_increase_pct |-> inc ]

ScenarioA == ApiRequest(Dec(200000, 0), Dec(800, 0), 10, Dec(8, 0 - 2))
OtherRateRequest == ApiRequest(Dec(150000, 0), Dec(900, 0), 5, Dec(12, 0 - 2))
DefaultsRequest ==
    [purchase_price_usd |-> Dec(200000, 0), monthly_rent_usd |-> Dec(800, 0)]
\* the guess leaves the range of (1 + guess) ** (t + 1)
OverflowRequest ==
    ServiceRequest(Dec(200000, 0), One, 20, Dec(0 - 20, 0), FZero, FZero,
                   FZero, Dec(2, 0))
\* Newton's iteration enters a cycle
CyclingRequest ==
    ServiceRequest(Hundred, Hundred, 6, Hundred, Hundred, Dec(5, 0),
                   Dec(200, 0), Dec(0 - 100, 0))
\* the derivative vanishes
FlatDerivativeRequest ==
    ServiceRequest(Dec(200000, 0), Dec(800, 0), 3, Dec(0 - 100, 0), Dec(2, 0),
                   Dec(5, 0), Dec(3, 0), Dec(2, 0))
\* the guess reaches -1
ZeroDenominatorRequest ==
    ServiceRequest(Dec(200000, 0), Dec(5000, 0), 1, Dec(10, 0), One,
                   Dec(5, 0), Dec(50, 0), FZero)
\* closing costs of -100%: the initial outlay is 0
ZeroOutlayRequest ==
    ServiceRequest(Dec(1000, 0), Hundred, 2, Dec(0 - 50, 0), Dec(200, 0),
                   Dec(5, 0), Dec(0 - 100, 0), Dec(2, 0))

InvalidRequests ==
    { ApiRequest(FZero, Dec(800, 0), 10, Dec(8, 0 - 2)),
      ApiRequest(Dec(0 - 200000, 0), Dec(800, 0), 10, Dec(8, 0 - 2)),
      ApiRequest(Dec(200000, 0), FZero, 10, Dec(8, 0 - 2)),
      ApiRequest(Dec(200000, 0), Dec(0 - 1, 0), 10, Dec(8, 0 - 2)),
      ApiRequest(Dec(200000, 0), Dec(800, 0), 0, Dec(8, 0 - 2)),
      ApiRequest(Dec(200000, 0), Dec(800, 0), 0 - 3, Dec(8, 0 - 2)),
      [monthly_rent_usd |-> Dec(800, 0)],
      [purchase_price_usd |-> Dec(200000, 0)] }

\* The requests of the model.  On each of them the eight-digit arithmetic
\* takes the branches the doubles of CPython take: the same exception or
\* return, in the same pass of the loops, with the same rounded fields.
Requests ==
    { ScenarioA, OtherRateRequest, DefaultsRequest, OverflowRequest,
      CyclingRequest, FlatDerivativeRequest, ZeroDenominatorRequest,
      ZeroOutlayRequest } \cup InvalidRequests

\* params.get(key, default)
Get(d, key, default) == IF key \in DOMAIN d THEN d[key] ELSE default

purchase_price == Get(params, "purchase_price_usd", FZero)
monthly_rent == Get(params, "monthly_rent_usd", FZero)
years == Get(params, "holding_period_years", 10)
appreciation == FDiv(Get(params, "annual_appreciation_pct", Dec(3, 0)), Hundred)
expenses_pct == FDiv(Get(params, "annual_expenses_pct", Dec(2, 0)), Hundred)
vacancy == FDiv(Get(params, "vacancy_rate_pct", Dec(5, 0)), Hundred)
closing_costs_pct == FDiv(Get(params, "closing_costs_pct", Dec(3, 0)), Hundred)
rent_increase == FDiv(Get(params, "annual_rent_increase_pct", Dec(2, 0)), Hundred)

\* The validation without the test of the rent.
InvalidParams_RentUnchecked ==
    FLe(purchase_price, FZero) \/ years <= 0

\* the condition of the `raise ValueError`
InvalidParams ==
    FLe(purchase_price, FZero) \/ FLe(monthly_rent, FZero) \/ years <= 0

\* Reading the parameters, the validation and the set-up of the projection.
Validate ==
    /\ roi_pc = "start"
    /\ IF InvalidParams
       THEN /\ error' = "ValueError"
            /\ roi_pc' = "done"
            /\ UNCHANGED <<initial_cost, cash_flows_for_irr, current_rent,
                           property_value, year>>
       ELSE /\ initial_cost' = FMul(purchase_price, FAdd(One, closing_costs_pct))
            /\ cash_flows_for_irr' = <<FNeg(initial_cost')>>
            /\ current_rent' = monthly_rent
            /\ property_value' = purchase_price
            /\ year' = 1
            /\ roi_pc' = "project"
            /\ error' = error
    /\ UNCHANGED <<params, total_rental_income, total_expenses,
                   yearly_cashflows, guess, iteration, t, npv, d_npv, irr,
                   result>>
    /\ UNCHANGED <<snapVars, appVars>>

\* round(x, 2) if x else None
RoundOrNoneF(x) == IF IsZero(x) THEN None ELSE FRound2(x)

\* The records numbered from 0.
YearRecord_FromZero(gross, effective, expenses, net, value, sale_proceeds, cf) ==
    [ year            |-> year - 1,
      gross_rent      |-> FRound2(gross),
      effective_rent  |-> FRound2(effective),
      expenses        |-> FRound2(expenses),
      net_income      |-> FRound2(net),
      property_value  |-> FRound2(value),
      sale_proceeds   |-> RoundOrNoneF(sale_proceeds),
      total_cash_flow |-> FRound2(cf) ]

\* The record of a year in yearly_cashflows.
YearRecord(gross, effective, expenses, net, value, sale_proceeds, cf) ==
    [ year            |-> year,
      gross_rent      |-> FRound2(gross),
      effective_rent  |-> FRound2(effective),
      expenses        |-> FRound2(expenses),
      net_income      |-> FRound2(net),
      property_value  |-> FRound2(value),
      sale_proceeds   |-> RoundOrNoneF(sale_proceeds),
      total_cash_flow |-> FRound2(cf) ]

\* The expenses taken as a share of the value the year ends with.
ExpenseBase_Appreciated(value) == FMul(value, FAdd(One, appreciation))

\* The value annual_expenses is a share of: line 357 reads property_value
\* before line 366 multiplies it.
ExpenseBase(value) == value

\* One pass of `for year in range(1, years + 1)`.
ProjectYear ==
    /\ roi_pc = "project"
    /\ \E gross_rent \in {FMul(current_rent, Twelve)} :
       \E effective_rent \in {FMul(gross_rent, FSub(One, vacancy))} :
       \E annual_expenses \in {FMul(ExpenseBase(property_value), expenses_pct)} :
       \E net_income \in {FSub(effective_rent, annual_expenses)} :
       \E value \in {FMul(property_value, FAdd(One, appreciation))} :
       \E sale_proceeds \in
              {IF year = years
               THEN FMul(value, FSub(One, closing_costs_pct)) ELSE FZero} :
       \E annual_cf \in {FAdd(net_income, sale_proceeds)} :
           /\ total_rental_income' = FAdd(total_rental_income, effective_rent)
           /\ total_expenses' = FAdd(total_expenses, annual_expenses)
           /\ property_value' = value
           /\ cash_flows_for_irr' = Append(cash_flows_for_irr, annual_cf)
           /\ yearly_cashflows' = Append(yearly_cashflows,
                  YearRecord(gross_rent, effective_rent, annual_expenses,
                             net_income, value, sale_proceeds, annual_cf))
           /\ current_rent' = FMul(current_rent, FAdd(One, rent_increase))
    /\ IF year = years
       THEN \* the call of _compute_irr: its initial guess
            roi_pc' = "irr" /\ guess' = Dec(10, 0 - 2) /\ iteration' = 0
       ELSE UNCHANGED <<roi_pc, guess, iteration>>
    /\ year' = IF year = years THEN year ELSE year + 1
    /\ UNCHANGED <<params, initial_cost, t, npv, d_npv, irr, result, error>>
    /\ UNCHANGED <<snapVars, appVars>>

ExcName(x) == IF x = OverflowError THEN "OverflowError" ELSE "ZeroDivisionError"

\* cf / denom, or the exception of denom
NpvTerm(cf, denom) == IF IsRaise(denom) THEN denom ELSE FDiv(cf, denom)

\* acc + term, or the first exception
NpvPlus(acc, term) ==
    IF IsRaise(acc) THEN acc ELSE IF IsRaise(term) THEN term ELSE FAdd(acc, term)

\* The sum of the first n terms cf / (1 + rate) ** k.
RECURSIVE NpvUpTo(_, _, _)
NpvUpTo(rate, cash_flows, n) ==
    IF n = 0 THEN FZero
    ELSE NpvPlus(NpvUpTo(rate, cash_flows, n - 1),
                 NpvTerm(cash_flows[n], FPow(FAdd(One, rate), n - 1)))

\* sum(cf / (1 + rate) ** t for t, cf in enumerate(cash_flows))
_compute_npv(rate, cash_flows) == NpvUpTo(rate, cash_flows, Len(cash_flows))

max_iterations == 200
tolerance == Dec(1, 0 - 7)
DerivativeFloor == Dec(1, 0 - 14)

\* The convergence test with a tolerance of 1e-3.
Converged_Loose(new_guess, g) == FLt(FAbs(FSub(new_guess, g)), Dec(1, 0 - 3))

\* abs(new_guess - guess) < tolerance
Converged(new_guess, g) == FLt(FAbs(FSub(new_guess, g)), tolerance)

\* t * cf / power, or the exception of power
Slope(k, cf, power) ==
    IF IsRaise(power) THEN power ELSE FDiv(FMul(Dec(k, 0), cf), power)

\* Leaving _compute_irr by an exception: simulate_roi does not catch it.
IrrRaise(exc) ==
    /\ error' = ExcName(exc)
    /\ roi_pc' = "done"
    /\ UNCHANGED <<guess, iteration, t, npv, d_npv, irr>>

\* `return None` / `return new_guess`
IrrReturn(value) ==
    /\ irr' = value
    /\ roi_pc' = "finish"
    /\ UNCHANGED <<guess, iteration, t, npv, d_npv, error>>

\* One pass of `for t, cf in enumerate(cash_flows)`.
NewtonTerm ==
    /\ roi_pc = "irr"
    /\ iteration < max_iterations
    /\ t < Len(cash_flows_for_irr)
    /\ \E cf \in {cash_flows_for_irr[t + 1]} :
       \E denom \in {FPow(FAdd(One, guess), t)} :
       \E slope \in {IF t = 0 \/ IsRaise(denom) \/ IsZero(denom) THEN FZero
                     ELSE Slope(t, cf, FPow(FAdd(One, guess), t + 1))} :
           IF IsRaise(denom) THEN IrrRaise(denom)
           ELSE IF IsZero(denom) THEN IrrReturn(None)
           ELSE IF IsRaise(slope) THEN IrrRaise(slope)
           ELSE /\ npv' = FAdd(npv, FDiv(cf, denom))
                /\ d_npv' = IF t > 0 THEN FSub(d_npv, slope) ELSE d_npv
                /\ t' = t + 1
                /\ UNCHANGED <<roi_pc, guess, iteration, irr, error>>
    /\ UNCHANGED <<params, initial_cost, current_rent, property_value,
                   total_rental_income, total_expenses, year,
                   cash_flows_for_irr, yearly_cashflows, result>>
    /\ UNCHANGED <<snapVars, appVars>>

\* guess - npv / d_npv
NewGuess(g, sum, slopes) == FSub(g, FDiv(sum, slopes))

\* The end of a pass of `for _ in range(max_iterations)`: the derivative
\* guard, the new guess and the convergence test.
NewtonStep ==
    /\ roi_pc = "irr"
    /\ iteration < max_iterations
    /\ t = Len(cash_flows_for_irr)
    /\ IF FLt(FAbs(d_npv), DerivativeFloor) THEN IrrReturn(None)
       ELSE \E new_guess \in {NewGuess(guess, npv, d_npv)} :
               IF Converged(new_guess, guess) THEN IrrReturn(new_guess)
               ELSE /\ guess' = new_guess
                    /\ iteration' = iteration + 1
                    /\ t' = 0
                    /\ npv' = FZero
                    /\ d_npv' = FZero
                    /\ UNCHANGED <<roi_pc, irr, error>>
    /\ UNCHANGED <<params, initial_cost, current_rent, property_value,
                   total_rental_income, total_expenses, year,
                   cash_flows_for_irr, yearly_cashflows, result>>
    /\ UNCHANGED <<snapVars, appVars>>

\* The loop is exhausted: "did not converge".
IrrNoConvergence ==
    /\ roi_pc = "irr"
    /\ iteration = max_iterations
    /\ t = 0
    /\ irr' = None
    /\ roi_pc' = "finish"
    /\ UNCHANGED <<params, initial_cost, current_rent, property_value,
                   total_rental_income, total_expenses, year,
                   cash_flows_for_irr, yearly_cashflows, guess, iteration,
                   t, npv, d_npv, result, error>>
    /\ UNCHANGED <<snapVars, appVars>>

\* sum(cf for cf in cash_flows[1:])
RECURSIVE SumFrom(_, _)
SumFrom(cash_flows, i) ==
    IF i = 1 THEN FZero ELSE FAdd(SumFrom(cash_flows, i - 1), cash_flows[i])

discount_rate == Dec(8, 0 - 2)

\* The dict simulate_roi returns.
ResultDict(total_return, npv_at_8pct) ==
    [ initial_investment   |-> FRound2(initial_cost),
      final_property_value |-> FRound2(property_value),
      total_rental_income  |-> FRound2(total_rental_income),
      total_expenses       |-> FRound2(total_expenses),
      total_return_pct     |-> FRound2(total_return),
      irr_pct              |-> IF irr # None THEN FRound2(FMul(irr, Hundred))
                               ELSE None,
      npv_at_8pct          |-> FRound2(npv_at_8pct),
      holding_period_years |-> years,
      yearly_cashflows     |-> yearly_cashflows ]

\* Total return, NPV and the return statement.
Finish ==
    /\ roi_pc = "finish"
    /\ \E total_cash_in \in
              {SumFrom(cash_flows_for_irr, Len(cash_flows_for_irr))} :
       \E ratio \in {FDiv(FSub(total_cash_in, initial_cost), initial_cost)} :
       \E total_return \in {IF IsRaise(ratio) THEN ratio
                              ELSE FMul(ratio, Hundred)} :
       \E npv_at_8pct \in {_compute_npv(discount_rate, cash_flows_for_irr)} :
           IF IsRaise(ratio)
           THEN error' = ExcName(ratio) /\ result' = result
           ELSE IF IsRaise(npv_at_8pct)
           THEN error' = ExcName(npv_at_8pct) /\ result' = result
           ELSE /\ result' = <<ResultDict(total_return, npv_at_8pct)>>
                /\ error' = error
    /\ roi_pc' = "done"
    /\ UNCHANGED <<params, initial_cost, current_rent, property_value,
                   total_rental_income, total_expenses, year,
                   cash_flows_for_irr, yearly_cashflows, guess, iteration,
                   t, npv, d_npv, irr>>
    /\ UNCHANGED <<snapVars, appVars>>

\* A call of simulate_roi with one of the requests.
InitRoi ==
    /\ SnapshotInit
    /\ roi_pc = "start"
    /\ params \in Requests
    /\ RoiLocalsInit
    /\ AppIdle

NextRoi ==
    \/ Validate
    \/ ProjectYear
    \/ NewtonTerm
    \/ NewtonStep
    \/ IrrNoConvergence
    \/ Finish

SpecRoi == InitRoi /\ [][NextRoi]_vars

----------------------------------------------------------------------------
(* The geometry helpers of map_service.py.                                 *)

\* The values random.Random(42).random() returns, in order.
MersenneTwister42 ==
    <<
    F(63942680, 0 - 8), F(25010755, 0 - 9), F(27502932, 0 - 8), F(22321074, 0 - 8),
    F(73647121, 0 - 8), F(67669949, 0 - 8), F(89217957, 0 - 8), F(86938833, 0 - 9),
    F(42192182, 0 - 8), F(29797219, 0 - 9), F(21863797, 0 - 8), F(50535529, 0 - 8),
    F(26535970, 0 - 9), F(19883765, 0 - 8), F(64988444, 0 - 8), F(54494148, 0 - 8),
    F(22044062, 0 - 8), F(58926568, 0 - 8), F(80943046, 0 - 8), F(64987597, 0 - 10),
    F(80581925, 0 - 8), F(69813939, 0 - 8), F(34025052, 0 - 8), F(15547950, 0 - 8),
    F(95721307, 0 - 8), F(33659455, 0 - 8), F(92745843, 0 - 9), F(96716377, 0 - 9),
    F(84749437, 0 - 8), F(60372603, 0 - 8), F(80712827, 0 - 8), F(72973179, 0 - 8),
    F(53622809, 0 - 8), F(97311576, 0 - 8), F(37853438, 0 - 8), F(55204063, 0 - 8),
    F(82940466, 0 - 8), F(61851975, 0 - 8), F(86170690, 0 - 8), F(57735215, 0 - 8),
    F(70457184, 0 - 8), F(45824384, 0 - 9), F(22789828, 0 - 8), F(28938796, 0 - 8),
    F(79791977, 0 - 9), F(23279089, 0 - 8), F(10100143, 0 - 8), F(27797360, 0 - 8),
    F(63568444, 0 - 8), F(36483218, 0 - 8), F(37018097, 0 - 8), F(20950703, 0 - 8),
    F(26697782, 0 - 8), F(93665459, 0 - 8), F(64803539, 0 - 8), F(60913101, 0 - 8),
    F(17113865, 0 - 8), F(72912680, 0 - 8), F(16340249, 0 - 8), F(37945544, 0 - 8),
    F(98952335, 0 - 8), F(63999976, 0 - 8), F(55694974, 0 - 8), F(68461425, 0 - 8),
    F(84285192, 0 - 8), F(77599991, 0 - 8), F(22904807, 0 - 8), F(32100244, 0 - 9),
    F(31545305, 0 - 8), F(26774088, 0 - 8), F(21098284, 0 - 8), F(94290971, 0 - 8),
    F(87636763, 0 - 8), F(31467788, 0 - 8), F(65543867, 0 - 8), F(39563190, 0 - 8),
    F(91454759, 0 - 8), F(45885185, 0 - 8), F(26488017, 0 - 8), F(24662751, 0 - 8),
    F(56136813, 0 - 8), F(26274161, 0 - 8), F(58458599, 0 - 8), F(89782288, 0 - 8),
    F(39940051, 0 - 8), F(21932076, 0 - 8), F(99753761, 0 - 8), F(50952629, 0 - 8),
    F(90909412, 0 - 9), F(47116375, 0 - 9), F(10964913, 0 - 8), F(62744604, 0 - 8),
    F(79207936, 0 - 8), F(42215997, 0 - 8), F(63527706, 0 - 9), F(38161929, 0 - 8),
    F(99612138, 0 - 8), F(52911435, 0 - 8), F(97107838, 0 - 8), F(86077970, 0 - 8),
    F(11481022, 0 - 9), F(72072182, 0 - 8), F(68171037, 0 - 8), F(53697033, 0 - 8),
    F(26682519, 0 - 8), F(64096180, 0 - 8), F(11155217, 0 - 8), F(43476525, 0 - 8),
    F(45372371, 0 - 8), F(95381593, 0 - 8), F(87585294, 0 - 8), F(26338905, 0 - 8),
    F(50058611, 0 - 8), F(17865188, 0 - 8), F(91262784, 0 - 8), F(87051857, 0 - 8),
    F(29844479, 0 - 8), F(63894949, 0 - 8), F(60897021, 0 - 8), F(15283927, 0 - 8),
    F(76251080, 0 - 8), F(53937903, 0 - 8), F(77862648, 0 - 8), F(53035367, 0 - 8),
    F(57189613, 0 - 11), F(32415606, 0 - 8), F(19476742, 0 - 9), F(92909862, 0 - 8),
    F(87872188, 0 - 8), F(83166553, 0 - 8), F(30751413, 0 - 8), F(57925166, 0 - 9),
    F(87800960, 0 - 8), F(94694945, 0 - 8), F(85653452, 0 - 9), F(48599046, 0 - 8),
    F(69212518, 0 - 9), F(76060217, 0 - 8), F(76583443, 0 - 8), F(12839146, 0 - 8),
    F(47528238, 0 - 8), F(54980359, 0 - 8), F(26505663, 0 - 8), F(87243304, 0 - 8),
    F(42313794, 0 - 8), F(21179821, 0 - 8), F(53929609, 0 - 8), F(72993107, 0 - 8),
    F(20115106, 0 - 8), F(31171629, 0 - 8), F(99514936, 0 - 8), F(64987806, 0 - 8),
    F(43810008, 0 - 8), F(51757584, 0 - 8), F(12100420, 0 - 8), F(22469734, 0 - 8),
    F(33808556, 0 - 8), F(58830872, 0 - 8), F(23011473, 0 - 8), F(22021738, 0 - 8),
    F(70993086, 0 - 9), F(63110296, 0 - 8), F(22894178, 0 - 8), F(90542001, 0 - 8),
    F(85963540, 0 - 8), F(70857350, 0 - 9), F(23800463, 0 - 8), F(66897778, 0 - 8),
    F(21423681, 0 - 8), F(13231185, 0 - 8), F(93551424, 0 - 8), F(57104309, 0 - 8),
    F(47267103, 0 - 8), F(78461942, 0 - 8), F(80749700, 0 - 8), F(19040991, 0 - 8),
    F(96930814, 0 - 9), F(43105118, 0 - 8), F(42357862, 0 - 8), F(46702467, 0 - 8),
    F(72907585, 0 - 8), F(67336455, 0 - 8), F(98416521, 0 - 8), F(98417871, 0 - 9),
    F(40262128, 0 - 8), F(33930261, 0 - 8), F(86167254, 0 - 8), F(24865633, 0 - 8),
    F(19020891, 0 - 8), F(44861355, 0 - 8), F(42188164, 0 - 8), F(27854514, 0 - 8),
    F(24980645, 0 - 8), F(92326560, 0 - 8), F(44313075, 0 - 8), F(86134910, 0 - 8),
    F(55032531, 0 - 8), F(50588330, 0 - 9), F(99928247, 0 - 8), F(83602759, 0 - 8),
    F(96899626, 0 - 8), F(92636698, 0 - 8), F(84869573, 0 - 8), F(16631111, 0 - 8),
    F(48564113, 0 - 8), F(21374730, 0 - 8), F(40104029, 0 - 8), F(58635400, 0 - 9),
    F(37897312, 0 - 8), F(98530884, 0 - 8), F(26520306, 0 - 8), F(78407060, 0 - 8),
    F(45500837, 0 - 8), F(42300749, 0 - 8), F(95731764, 0 - 8), F(99542269, 0 - 8),
    F(55576832, 0 - 8), F(71840828, 0 - 8), F(15479683, 0 - 8), F(29670783, 0 - 8),
    F(96870936, 0 - 8), F(57918029, 0 - 8), F(54219520, 0 - 8), F(74797556, 0 - 8),
    F(57165273, 0 - 9), F(58417759, 0 - 8), F(50285038, 0 - 8), F(85271989, 0 - 8),
    F(15743273, 0 - 8), F(96077890, 0 - 8), F(80111465, 0 - 9), F(18582496, 0 - 8),
    F(59503511, 0 - 8), F(67521255, 0 - 8), F(23520390, 0 - 8), F(11988661, 0 - 8),
    F(89028731, 0 - 8), F(24621535, 0 - 8), F(59451915, 0 - 8), F(61938151, 0 - 8),
    F(41922492, 0 - 8), F(58367229, 0 - 8), F(52278272, 0 - 8), F(93470626, 0 - 8),
    F(20425920, 0 - 8), F(71619180, 0 - 8), F(23868595, 0 - 8), F(39578585, 0 - 8),
    F(67169022, 0 - 8), F(29999708, 0 - 8), F(31617720, 0 - 8), F(75186449, 0 - 8),
    F(72543114, 0 - 9), F(45828552, 0 - 8), F(99845444, 0 - 8), F(99609645, 0 - 8),
    F(73260721, 0 - 9), F(21315431, 0 - 8), F(26520041, 0 - 8), F(93325938, 0 - 8),
    F(88086417, 0 - 8), F(87927024, 0 - 8), F(36952709, 0 - 8), F(15774683, 0 - 8),
    F(83374495, 0 - 8), F(70353993, 0 - 8), F(61167777, 0 - 8), F(98723306, 0 - 8),
    F(65397632, 0 - 8), F(78231072, 0 - 10), F(81710414, 0 - 8), F(29937875, 0 - 8),
    F(66338871, 0 - 8), F(93893000, 0 - 8), F(13429111, 0 - 8), F(11542867, 0 - 8),
    F(10703598, 0 - 8), F(55322364, 0 - 8), F(27234821, 0 - 8), F(60482983, 0 - 8),
    F(71761219, 0 - 8), F(20359731, 0 - 8), F(63423796, 0 - 8), F(26398390, 0 - 8),
    F(48853185, 0 - 8), F(90533649, 0 - 8), F(84610371, 0 - 8), F(92298468, 0 - 9),
    F(42357577, 0 - 8), F(27668022, 0 - 8), F(35456891, 0 - 10), F(77111922, 0 - 8),
    F(63711338, 0 - 8), F(26195526, 0 - 8), F(74123091, 0 - 8), F(55168042, 0 - 8),
    F(42768692, 0 - 8), F(96696996, 0 - 10), F(75243860, 0 - 9), F(88310639, 0 - 8),
    F(90392857, 0 - 8), F(54559029, 0 - 8), F(83459502, 0 - 8), F(58250957, 0 - 8),
    F(14809379, 0 - 8), F(12744552, 0 - 8), F(30825835, 0 - 8), F(89898149, 0 - 8),
    F(79612230, 0 - 8), F(86070258, 0 - 8), F(89892464, 0 - 8), F(21007654, 0 - 8),
    F(24952974, 0 - 8), F(10279362, 0 - 8), F(78011624, 0 - 8), F(88413470, 0 - 8),
    F(40637739, 0 - 8), F(62066151, 0 - 8), F(15455334, 0 - 8), F(92988102, 0 - 8),
    F(86460570, 0 - 8), F(97620603, 0 - 8), F(81077172, 0 - 8), F(88141620, 0 - 8),
    F(24786362, 0 - 9), F(73656447, 0 - 8), F(33218547, 0 - 8), F(93081589, 0 - 8),
    F(80223514, 0 - 8), F(86406403, 0 - 8), F(81074932, 0 - 8), F(26680571, 0 - 8),
    F(78737451, 0 - 8), F(10809563, 0 - 8), F(87216678, 0 - 8), F(85859325, 0 - 8),
    F(22243372, 0 - 8), F(81658661, 0 - 8), F(46030323, 0 - 8), F(30519087, 0 - 8),
    F(79534550, 0 - 8), F(22759549, 0 - 8), F(23664435, 0 - 9), F(19312979, 0 - 8),
    F(32826195, 0 - 8), F(86435294, 0 - 8), F(96688910, 0 - 8), F(27912499, 0 - 8),
    F(64148174, 0 - 8), F(39967838, 0 - 8), F(98114969, 0 - 8), F(53621573, 0 - 8),
    F(93923714, 0 - 8), F(11534175, 0 - 8), F(97040061, 0 - 8), F(17856782, 0 - 8),
    F(96253432, 0 - 8), F(26546636, 0 - 8), F(10840255, 0 - 8), F(43456376, 0 - 8),
    F(72854506, 0 - 8), F(31367731, 0 - 8), F(60620885, 0 - 8), F(51142306, 0 - 8),
    F(38519543, 0 - 8), F(57658804, 0 - 8), F(25472251, 0 - 8), F(70878528, 0 - 8),
    F(16912782, 0 - 10), F(92557517, 0 - 8), F(53845200, 0 - 8), F(71943000, 0 - 8),
    F(74195008, 0 - 8), F(67062850, 0 - 8), F(36422147, 0 - 8), F(69973811, 0 - 9),
    F(66423768, 0 - 8), F(33020004, 0 - 8), F(31391565, 0 - 8), F(84801528, 0 - 8),
    F(71975426, 0 - 8), F(30032227, 0 - 8), F(30928466, 0 - 8), F(40839291, 0 - 8),
    F(40240039, 0 - 8), F(29565520, 0 - 8), F(12728780, 0 - 8), F(42044633, 0 - 8),
    F(94036367, 0 - 8), F(67731795, 0 - 8), F(90280555, 0 - 8), F(61551492, 0 - 8),
    F(30094987, 0 - 8), F(54793721, 0 - 8), F(40593970, 0 - 11), F(28691372, 0 - 8),
    F(42988815, 0 - 8), F(57998478, 0 - 8), F(65470562, 0 - 8), F(46498819, 0 - 8) >>

\* rng.uniform(a, b) with u the value rng.random() returns.
Uniform(a, b, u) == FAdd(a, FMul(FSub(b, a), u))

\* [polygon[0] for polygon in coords if polygon].
RECURSIVE OuterRings(_)
OuterRings(coords) ==
    IF coords = <<>> THEN <<>>
    ELSE IF Head(coords) = <<>> THEN OuterRings(Tail(coords))
    ELSE <<Head(coords)[1]>> \o OuterRings(Tail(coords))

_extract_polygon_rings(geojson) ==
    IF Get(geojson, "type", "") = "Polygon" /\ Get(geojson, "coordinates", <<>>) # <<>>
    THEN <<geojson.coordinates[1]>>
    ELSE IF Get(geojson, "type", "") = "MultiPolygon" /\ Get(geojson, "coordinates", <<>>) # <<>>
    THEN OuterRings(geojson.coordinates)
    ELSE <<>>

\* The vertices of all rings, in order (all_lons and all_lats side by side).
RECURSIVE Vertices(_)
Vertices(rings) ==
    IF rings = <<>> THEN <<>> ELSE Head(rings) \o Vertices(Tail(rings))

\* min() and max() of coordinate k of a non-empty list of vertices.
MinCoord(vs, k) ==
    CHOOSE v \in {vs[i][k] : i \in DOMAIN vs} : \A j \in DOMAIN vs : FLe(v, vs[j][k])

MaxCoord(vs, k) ==
    CHOOSE v \in {vs[i][k] : i \in DOMAIN vs} : \A j \in DOMAIN vs : FLe(vs[j][k], v)

\* The test of line 359 for the edge from (xj, yj) to (xi, yi).
Crosses(x, y, xi, yi, xj, yj) ==
    /\ FLt(y, yi) # FLt(y, yj)
    /\ FLt(x, FAdd(FDiv(FMul(FSub(xj, xi), FSub(y, yi)), FSub(yj, yi)), xi))

\* `inside` after the first i iterations of the loop of _point_in_ring; the
\* edge of iteration 1 comes from the last vertex.
RECURSIVE InsideAfter(_, _, _, _)
InsideAfter(x, y, ring, i) ==
    IF i = 0 THEN FALSE
    ELSE InsideAfter(x, y, ring, i - 1)
         # Crosses(x, y, ring[i][1], ring[i][2],
                   ring[IF i = 1 THEN Len(ring) ELSE i - 1][1],
                   ring[IF i = 1 THEN Len(ring) ELSE i - 1][2])

_point_in_ring(x, y, ring) == InsideAfter(x, y, ring, Len(ring))

_point_in_any_polygon(x, y, rings) ==
    \E k \in DOMAIN rings : _point_in_ring(x, y, rings[k])

\* math.sqrt(area / (target_count * 1.8)).
CellSize(width, height, target_count) ==
    FSqrt(FDiv(FMul(width, height), FMul(Dec(target_count, 0), Dec(18, 0 - 1))))

\* The jitter of one grid coordinate: c + rng.uniform(-cell * 0.3, cell * 0.3).
Jitter(c, cell_size, u) ==
    FAdd(c, Uniform(FMul(FNeg(cell_size), Dec(3, 0 - 1)),
                    FMul(cell_size, Dec(3, 0 - 1)), u))

----------------------------------------------------------------------------
(* _normalize_weights.                                                     *)

\* sorted(set(price_values)).
RECURSIVE SortedSet(_)
SortedSet(S) ==
    IF S = {} THEN <<>>
    ELSE LET m == CHOOSE v \in S : \A w \in S : FLe(v, w)
         IN  <<m>> \o SortedSet(S \ {m})

sorted_unique(price_values) ==
    SortedSet({price_values[i] : i \in DOMAIN price_values})

\* The quantile rank with the divisor n instead of n - 1.
Rank_OverN(i, n) == FDiv(Dec(i, 0), Dec(n, 0))

\* i / (n - 1) for the value at position i (from 0) of n > 1.
Rank(i, n) == FDiv(Dec(i, 0), Dec(n - 1, 0))

\* The rank of a single distinct value taken as the middle of the ranks.
SingleRank_Half == Dec(5, 0 - 1)

\* The rank of a single distinct value (line 385).
SingleRank == Dec(55, 0 - 2)

\* rank_map.get(price, 0.5).
RankOf(price, su) ==
    IF \A i \in DOMAIN su : su[i] # price THEN Dec(5, 0 - 1)
    ELSE IF Len(su) = 1 THEN SingleRank
    ELSE Rank((CHOOSE i \in DOMAIN su : su[i] = price) - 1, Len(su))

\* Lines 392-403 for one point.
Weighted(pt, su) ==
    [ lat    |-> pt.lat,
      lon    |-> pt.lon,
      weight |-> IF pt.price_m2 # None
                 THEN FRound4(FAdd(Dec(15, 0 - 2), FMul(RankOf(pt.price_m2, su), Dec(85, 0 - 2))))
                 ELSE FRound4(Dec(5, 0 - 1)) ]

WeightedAll(points, su) == [i \in DOMAIN points |-> Weighted(points[i], su)]

_normalize_weights(points, price_values) ==
    IF price_values = <<>>
    THEN [i \in DOMAIN points |->
             [lat |-> points[i].lat, lon |-> points[i].lon, weight |-> Dec(5, 0 - 1)]]
    ELSE WeightedAll(points, sorted_unique(price_values))

----------------------------------------------------------------------------
(* The tables the map endpoints are called on.                             *)

\* The operation types of the listings (import_properati's vocabulary).
OperationTypes == {"sale", "rent", "temporary_rent"}

\* SQL NULL in the JSONB column barrios.geometry.
NoGeometry == [is_null |-> TRUE]

\* A GeoJSON position [lon, lat].
Pt(lon, lat) == <<Dec(lon, 0), Dec(lat, 0)>>

\* The square of Scenario E, its ring not closed.
SquareE ==
    [type |-> "Polygon", coordinates |-> << <<Pt(0, 0), Pt(0, 10), Pt(10, 10), Pt(10, 0)>> >>]
\* A triangle that covers half of its bounding box, its ring closed.
Triangle ==
    [type |-> "Polygon", coordinates |-> << <<Pt(0, 0), Pt(6, 0), Pt(0, 6), Pt(0, 0)>> >>]
\* A MultiPolygon of one rhombus and one polygon without rings.
Rhombus ==
    [type |-> "MultiPolygon",
     coordinates |-> << << <<Pt(3, 0), Pt(6, 3), Pt(3, 6), Pt(0, 3), Pt(3, 0)>> >>, <<>> >>]
\* Degenerate geometries: no rings, a ring without vertices, a bounding box
\* without height, an empty object.
NoRings == [type |-> "Polygon", coordinates |-> <<>>]
EmptyRing == [type |-> "Polygon", coordinates |-> << <<>> >>]
FlatRing == [type |-> "Polygon", coordinates |-> << <<Pt(0, 5), Pt(4, 5), Pt(8, 5)>> >>]
EmptyObject == <<>>

\* A row of barrios; area_km2 is Numeric(10,4), here in units of 10^-4.
BarrioRow(name, geometry, area_km2) ==
    [name |-> name, slug |-> name, geometry |-> geometry, area_km2 |-> area_km2]

\* A row of listings with the columns the map endpoints read: latitude and
\* longitude are Numeric(10,7), here in units of 10^-7 degrees.
GeoListing(operation_type, is_active, latitude, longitude, price, surface_total) ==
    [ barrio_id          |-> 1,
      operation_type     |-> operation_type,
      is_active          |-> is_active,
      price_usd_blue     |-> price,
      surface_covered_m2 |-> surface_total,
      surface_total_m2   |-> surface_total,
      days_on_market     |-> NULL,
      first_seen_at      |-> 0,
      last_seen_at       |-> 0,
      latitude           |-> latitude,
      longitude          |-> longitude ]

\* A row of barrio_snapshots as the task inserts it, for a group whose
\* statistics all equal `median` (in units of 10^-2).
SnapshotRow(id, barrio_id, snapshot_date, operation_type, median) ==
    InsertedRow([ barrio_id           |-> barrio_id,
                  snapshot_date       |-> snapshot_date,
                  operation_type      |-> operation_type,
                  property_type       |-> NULL,
                  listing_count       |-> 1,
                  median_price_usd_m2 |-> median,
                  avg_price_usd_m2    |-> median,
                  p25_price_usd_m2    |-> median,
                  p75_price_usd_m2    |-> median,
                  avg_days_on_market  |-> NULL,
                  new_listings_7d     |-> 1,
                  removed_listings_7d |-> 0,
                  usd_blue_rate       |-> NULL ], id)

Deg == 10 * 1000000   \* one degree in units of 10^-7

\* Listings with coordinates: four priced sale listings with three distinct
\* unit prices, sale listings without a price, inactive or without
\* coordinates, two rent listings with one unit price, and a temporary-rent
\* listing without a surface.
GeoListings ==
    << GeoListing("sale", TRUE, 1 * Deg, 1 * Deg, 100000, 50),
       GeoListing("sale", TRUE, 3 * Deg, 2 * Deg, 300000, 100),
       GeoListing("sale", TRUE, 5 * Deg, 5 * Deg, 120000, 60),
       GeoListing("sale", TRUE, 3 * Deg, 3 * Deg, 450000, 100),
       GeoListing("sale", TRUE, 4 * Deg, 4 * Deg, NULL, 80),
       GeoListing("sale", FALSE, 2 * Deg, 2 * Deg, 200000, 50),
       GeoListing("sale", TRUE, NULL, NULL, 200000, 40),
       GeoListing("rent", TRUE, 2 * Deg, 1 * Deg, 500, 50),
       GeoListing("rent", TRUE, 2 * Deg, 2 * Deg, 1000, 100),
       GeoListing("rent", TRUE, 3 * Deg, 3 * Deg, NULL, 70),
       GeoListing("temporary_rent", TRUE, 1 * Deg, 1 * Deg, 900, 0) >>

\* The databases the heatmap is requested on: listings with coordinates;
\* none and the square of Scenario E (1.67 km2, 100 points); none and
\* barrios with degenerate geometries among renderable ones; none and a
\* barrio whose ring has no vertices.
HeatDatabases ==
    { [ barrios   |-> <<BarrioRow("a", Triangle, 5000), BarrioRow("b", NoGeometry, NULL)>>,
        listings  |-> GeoListings,
        snapshots |-> {SnapshotRow(1, 1, 0, "sale", 250000)} ],
      [ barrios   |-> <<BarrioRow("a", SquareE, 16700)>>,
        listings  |-> <<GeoListing("sale", TRUE, NULL, NULL, 200000, 40)>>,
        snapshots |-> {SnapshotRow(1, 1, 0, "sale", 240000),
                       SnapshotRow(2, 1, 7, "sale", 250000)} ],
      [ barrios   |-> <<BarrioRow("a", FlatRing, 5000), BarrioRow("b", Triangle, 5000),
                        BarrioRow("c", NoRings, 0), BarrioRow("d", EmptyObject, NULL),
                        BarrioRow("e", Rhombus, 4000), BarrioRow("f", NoGeometry, NULL)>>,
        listings  |-> <<>>,
        snapshots |-> {SnapshotRow(1, 1, 7, "sale", 200000),
                       SnapshotRow(2, 2, 7, "sale", 250000),
                       SnapshotRow(3, 3, 7, "sale", 300000),
                       SnapshotRow(4, 4, 7, "sale", 350000),
                       SnapshotRow(5, 5, 7, "sale", 400000),
                       SnapshotRow(6, 6, 7, "sale", 450000),
                       SnapshotRow(7, 2, 7, "rent", 1000),
                       SnapshotRow(8, 2, 0, "sale", NULL)} ],
      [ barrios   |-> <<BarrioRow("a", Triangle, 5000), BarrioRow("b", EmptyRing, 5000)>>,
        listings  |-> <<>>,
        snapshots |-> {SnapshotRow(1, 1, 7, "rent", 1000),
                       SnapshotRow(2, 2, 7, "rent", 1200)} ] }

\* The values of the bbox parameter: absent, or "0,0,4,4".
BBoxParams ==
    { NoBBox,
      [ given |-> TRUE,
        text  |-> <<"0", ",", "0", ",", "4", ",", "4">>,
        box   |-> <<Dec(0, 0), Dec(0, 0), Dec(4, 0), Dec(4, 0)>> ] }

----------------------------------------------------------------------------
(* get_heatmap_data, one statement of the event loop at a time.            *)

\* The WHERE clause without the conditions of lines 175-182.
ListingWhere_NoBox(l, operation_type, bbox) ==
    /\ l.is_active = TRUE
    /\ l.latitude # NULL
    /\ l.longitude # NULL
    /\ l.operation_type = operation_type

\* The WHERE clause of _heatmap_from_listings; `bbox` is the value the
\* caller passed, unpacked as min_lon, min_lat, max_lon, max_lat.
ListingWhere(l, operation_type, bbox) ==
    /\ l.is_active = TRUE
    /\ l.latitude # NULL
    /\ l.longitude # NULL
    /\ l.operation_type = operation_type
    /\ bbox.given =>
          /\ FLe(bbox.text[2], FromInt(l.latitude, 0 - 7))
          /\ FLe(FromInt(l.latitude, 0 - 7), bbox.text[4])
          /\ FLe(bbox.text[1], FromInt(l.longitude, 0 - 7))
          /\ FLe(FromInt(l.longitude, 0 - 7), bbox.text[3])

\* Lines 194-196.
PriceM2(row) ==
    IF row.price_usd_blue # NULL /\ row.price_usd_blue # 0
       /\ row.surface_total_m2 # NULL /\ row.surface_total_m2 > 0
    THEN FDiv(Dec(row.price_usd_blue, 0), Dec(row.surface_total_m2, 0))
    ELSE None

\* Lines 197-201.
ListingPoint(row) ==
    [ lat      |-> FromInt(row.latitude, 0 - 7),
      lon      |-> FromInt(row.longitude, 0 - 7),
      price_m2 |-> PriceM2(row) ]

\* price_m2_values: the prices of the points that have one, in order.
PricesOf(points) ==
    SelectSeq([i \in DOMAIN points |-> points[i].price_m2], LAMBDA v : v # None)

\* An exception leaves the call.
Raised(h, exc) == [h EXCEPT !.pc = "done", !.error = exc]

\* get_heatmap_data returns the normalised points with the metric's name.
Responded(h, source, points, prices, metric) ==
    [h EXCEPT !.pc = "done",
              !.source = source,
              !.all_points = points,
              !.all_prices = prices,
              !.response = [ points |-> _normalize_weights(points, prices),
                             metric |-> metric,
                             total  |-> Len(points) ]]

\* Lines 187-205 and 142-143 for the rows of the listings query.
ListingsOutcome(h, rows) ==
    IF rows = <<>> THEN [h EXCEPT !.pc = "polygons"]
    ELSE Responded(h, "listings", [i \in DOMAIN rows |-> ListingPoint(rows[i])],
                   PricesOf([i \in DOMAIN rows |-> ListingPoint(rows[i])]), "price_usd_m2")

\* _heatmap_from_listings: unpacking a bbox that has not four elements
\* raises ValueError.
_heatmap_from_listings(h, ls) ==
    IF h.bbox.given /\ Len(h.bbox.text) # 4 THEN Raised(h, "ValueError")
    ELSE ListingsOutcome(h, SelectSeq(ls, LAMBDA l : ListingWhere(l, h.operation_type, h.bbox)))

\* latest_sub: max(snapshot_date) of the barrio's snapshots for the operation.
MaxDate(snaps, barrio_id, operation_type) ==
    LET dates == {s.snapshot_date : s \in {r \in snaps : r.barrio_id = barrio_id
                                                    /\ r.operation_type = operation_type}}
    IN  IF dates = {} THEN NULL ELSE CHOOSE d \in dates : \A e \in dates : e <= d

\* The snapshots the query of _heatmap_from_polygons joins to a barrio.
PolygonSnapshots(bs, snaps, operation_type) ==
    {s \in snaps :
        /\ s.barrio_id \in DOMAIN bs
        /\ s.snapshot_date = MaxDate(snaps, s.barrio_id, operation_type)
        /\ bs[s.barrio_id].geometry # NoGeometry
        /\ s.operation_type = operation_type
        /\ s.median_price_usd_m2 # NULL}

\* Its rows, in the order of the snapshots' ids.
RECURSIVE PolygonRows(_, _)
PolygonRows(bs, S) ==
    IF S = {} THEN <<>>
    ELSE LET s == CHOOSE r \in S : \A q \in S : r.id <= q.id
         IN  << [ name                |-> bs[s.barrio_id].name,
                  geometry            |-> bs[s.barrio_id].geometry,
                  area_km2            |-> bs[s.barrio_id].area_km2,
                  median_price_usd_m2 |-> s.median_price_usd_m2,
                  listing_count       |-> s.listing_count ] >>
             \o PolygonRows(bs, S \ {s})

\* Lines 253-257 and 146-147.
PolygonsOutcome(h, rows) ==
    IF rows = <<>> THEN Responded(h, "polygons", <<>>, <<>>, "median_price_usd_m2")
    ELSE [h EXCEPT !.pc = "row", !.source = "polygons", !.todo = rows]

Min2(a, b) == IF a <= b THEN a ELSE b
Max2(a, b) == IF a >= b THEN a ELSE b

\* Lines 266-269.
TargetPoints(area_km2) ==
    Max2(Min2(FInt(FMul(IF area_km2 = NULL \/ area_km2 = 0 THEN Dec(2, 0)
                        ELSE FromInt(area_km2, 0 - 4), Dec(60, 0))), 200), 30)

\* `continue` at line 263.
Skipped(h) == [h EXCEPT !.todo = Tail(h.todo)]

\* _fill_polygon_with_points returns barrio_points; lines 273-275 add them
\* to all_points and the loop goes on to the next row.
Returned(h, barrio_points) ==
    [h EXCEPT !.pc = "row",
              !.todo = Tail(h.todo),
              !.calls = Append(h.calls, [ geojson      |-> h.geojson,
                                          target_count |-> h.target_count,
                                          points       |-> barrio_points ]),
              !.all_points = h.all_points \o
                  [i \in DOMAIN barrio_points |->
                      [ lat      |-> barrio_points[i][1],
                        lon      |-> barrio_points[i][2],
                        price_m2 |-> h.price ]],
              !.all_prices = h.all_prices \o [i \in DOMAIN barrio_points |-> h.price],
              !.geojson = <<>>,
              !.target_count = 0,
              !.polygons = <<>>,
              !.min_lon = FZero,
              !.max_lon = FZero,
              !.min_lat = FZero,
              !.max_lat = FZero,
              !.cell_size = FZero,
              !.lat = FZero,
              !.lon = FZero,
              !.points = <<>>]

\* Lines 305-316: the grid's first point.
FillCells(h, cell_size) ==
    IF FLe(cell_size, FZero) THEN Returned(h, <<>>)
    ELSE [h EXCEPT !.pc = "fill",
                   !.cell_size = cell_size,
                   !.points = <<>>,
                   !.lat = FAdd(h.min_lat, FMul(cell_size, Half)),
                   !.lon = FAdd(h.min_lon, FMul(cell_size, Half))]

\* Lines 297-303.
FillBox(h, min_lon, max_lon, min_lat, max_lat) ==
    IF FLe(FSub(max_lon, min_lon), FZero) \/ FLe(FSub(max_lat, min_lat), FZero)
    THEN Returned(h, <<>>)
    ELSE FillCells([h EXCEPT !.min_lon = min_lon, !.max_lon = max_lon,
                             !.min_lat = min_lat, !.max_lat = max_lat],
                   CellSize(FSub(max_lon, min_lon), FSub(max_lat, min_lat), h.target_count))

\* Lines 289-298: min() of an empty list raises ValueError.
FillVertices(h, vs) ==
    IF vs = <<>> THEN Raised(h, "ValueError")
    ELSE FillBox(h, MinCoord(vs, 1), MaxCoord(vs, 1), MinCoord(vs, 2), MaxCoord(vs, 2))

\* Lines 285-287.
FillRings(h, polygons) ==
    IF polygons = <<>> THEN Returned(h, <<>>)
    ELSE FillVertices([h EXCEPT !.polygons = polygons], Vertices(polygons))

\* Lines 260-271 for the row at the head of the loop.
RowOutcome(h, row) ==
    IF DOMAIN row.geometry = {} THEN Skipped(h)
    ELSE FillRings([h EXCEPT !.price = FromInt(row.median_price_usd_m2, 0 - 2),
                             !.geojson = row.geometry,
                             !.target_count = TargetPoints(row.area_km2)],
                   _extract_polygon_rings(row.geometry))

\* The generator of a call: line 312 creates one of the call's own.
Generator(p) == p

\* Where the stream of a generator created without a seed would start: a
\* place of its own for each call.
Seed_Unseeded(p) == p

\* Where the stream of the call's generator starts: line 312 seeds it with 42.
Seed(p) == 0

\* The test of line 322 left out.
Kept_Unfiltered(jlon, jlat, polygons) == TRUE

\* Line 322.
Kept(jlon, jlat, polygons) == _point_in_any_polygon(jlon, jlat, polygons)

\* Lines 319-325 for the jittered point.
GridStep(h, jlat, jlon) ==
    [h EXCEPT !.points = IF Kept(jlon, jlat, h.polygons)
                         THEN Append(h.points, <<jlat, jlon>>) ELSE h.points,
              !.lon = FAdd(h.lon, h.cell_size)]

nonHeatVars == <<snapVars, roiVars, queryVars>>

\* api/v1/map.py, heatmap: the query parameters go to get_heatmap_data as
\* they came, the bbox as text.
HeatRequest(p) ==
    /\ heat[p].pc = "idle"
    /\ \E op \in OperationTypes, bbox \in BBoxParams :
          heat' = [heat EXCEPT ![p] = [HeatLocals EXCEPT !.pc = "listings",
                                                         !.operation_type = op,
                                                         !.bbox = bbox]]
    /\ UNCHANGED <<barrios, rng, nonHeatVars>>

\* Lines 141-143 with _heatmap_from_listings.
ListingsQuery(p) ==
    /\ heat[p].pc = "listings"
    /\ heat' = [heat EXCEPT ![p] = _heatmap_from_listings(heat[p], listings)]
    /\ UNCHANGED <<barrios, rng, nonHeatVars>>

\* Lines 146 and 214-257: the query of _heatmap_from_polygons.
PolygonsQuery(p) ==
    /\ heat[p].pc = "polygons"
    /\ heat' = [heat EXCEPT ![p] =
          PolygonsOutcome(heat[p],
              PolygonRows(barrios, PolygonSnapshots(barrios, barrio_snapshots,
                                                    heat[p].operation_type)))]
    /\ UNCHANGED <<barrios, rng, nonHeatVars>>

\* Lines 259-271 and 285-316: the next row, up to the grid's first point.
PolygonRow(p) ==
    /\ heat[p].pc = "row"
    /\ heat[p].todo # <<>>
    /\ heat' = [heat EXCEPT ![p] = RowOutcome(heat[p], Head(heat[p].todo))]
    /\ rng' = IF heat'[p].pc = "fill" THEN [rng EXCEPT ![Generator(p)] = Seed(p)] ELSE rng
    /\ UNCHANGED <<barrios, nonHeatVars>>

\* Lines 317-325: one grid point.
FillPoint(p) ==
    /\ heat[p].pc = "fill"
    /\ FLt(heat[p].lat, heat[p].max_lat)
    /\ FLt(heat[p].lon, heat[p].max_lon)
    /\ \E jlat \in {Jitter(heat[p].lat, heat[p].cell_size,
                           MersenneTwister42[rng[Generator(p)] + 1])} :
       \E jlon \in {Jitter(heat[p].lon, heat[p].cell_size,
                           MersenneTwister42[rng[Generator(p)] + 2])} :
          heat' = [heat EXCEPT ![p] = GridStep(heat[p], jlat, jlon)]
    /\ rng' = [rng EXCEPT ![Generator(p)] = @ + 2]
    /\ UNCHANGED <<barrios, nonHeatVars>>

\* Lines 315-317 and 326: the end of a grid row.
FillNextRow(p) ==
    /\ heat[p].pc = "fill"
    /\ FLt(heat[p].lat, heat[p].max_lat)
    /\ ~FLt(heat[p].lon, heat[p].max_lon)
    /\ heat' = [heat EXCEPT ![p] =
          [heat[p] EXCEPT !.lat = FAdd(heat[p].lat, heat[p].cell_size),
                          !.lon = FAdd(heat[p].min_lon, FMul(heat[p].cell_size, Half))]]
    /\ UNCHANGED <<barrios, rng, nonHeatVars>>

\* Lines 315 and 328, 273-275: the grid is exhausted.
FillReturn(p) ==
    /\ heat[p].pc = "fill"
    /\ ~FLt(heat[p].lat, heat[p].max_lat)
    /\ heat' = [heat EXCEPT ![p] = Returned(heat[p], heat[p].points)]
    /\ UNCHANGED <<barrios, rng, nonHeatVars>>

\* Lines 277 and 147: no row is left.
PolygonsReturn(p) ==
    /\ heat[p].pc = "row"
    /\ heat[p].todo = <<>>
    /\ heat' = [heat EXCEPT ![p] =
          Responded(heat[p], "polygons", heat[p].all_points, heat[p].all_prices,
                    "median_price_usd_m2")]
    /\ UNCHANGED <<barrios, rng, nonHeatVars>>

\* A heatmap request of each caller on one of the databases; the snapshot
\* task and simulate_roi take no part.
InitHeat ==
    /\ \E db \in HeatDatabases :
          /\ barrios = db.barrios
          /\ listings = db.listings
          /\ barrio_snapshots = db.snapshots
    /\ TaskInit
    /\ RoiIdle
    /\ HeatCallersIdle
    /\ QueryIdle

NextHeat ==
    \E p \in Procs :
        \/ HeatRequest(p)
        \/ ListingsQuery(p)
        \/ PolygonsQuery(p)
        \/ PolygonRow(p)
        \/ FillPoint(p)
        \/ FillNextRow(p)
        \/ FillReturn(p)
        \/ PolygonsReturn(p)

SpecHeat == InitHeat /\ [][NextHeat]_vars

----------------------------------------------------------------------------
(* get_heatmap_data called with the box its signature declares.            *)

\* bbox: tuple[float, float, float, float], (min_lon, min_lat, max_lon,
\* max_lat): what the statement unpacks is the box itself.
BoxParam(min_lon, min_lat, max_lon, max_lat) ==
    [ given |-> TRUE,
      text  |-> <<Dec(min_lon, 0), Dec(min_lat, 0), Dec(max_lon, 0), Dec(max_lat, 0)>>,
      box   |-> <<Dec(min_lon, 0), Dec(min_lat, 0), Dec(max_lon, 0), Dec(max_lat, 0)>> ]

\* A box that holds listings and a part of every barrio, and one beside
\* every listing and barrio.
BoxParams == {BoxParam(0, 0, 4, 4), BoxParam(20, 20, 24, 24)}

\* The caller that passes a box.
BoxCaller == 1

\* A call of get_heatmap_data with a box.
BoxRequest(p) ==
    /\ p = BoxCaller
    /\ heat[p].pc = "idle"
    /\ \E op \in OperationTypes, bbox \in BoxParams :
          heat' = [heat EXCEPT ![p] = [HeatLocals EXCEPT !.pc = "listings",
                                                         !.operation_type = op,
                                                         !.bbox = bbox]]
    /\ UNCHANGED <<barrios, rng, nonHeatVars>>

NextBox ==
    \E p \in Procs :
        \/ BoxRequest(p)
        \/ ListingsQuery(p)
        \/ PolygonsQuery(p)
        \/ PolygonRow(p)
        \/ FillPoint(p)
        \/ FillNextRow(p)
        \/ FillReturn(p)
        \/ PolygonsReturn(p)

SpecBox == InitHeat /\ [][NextBox]_vars

----------------------------------------------------------------------------
(* get_choropleth_data, get_barrio_trends and get_barrio_ranking.          *)

\* The metric names the callers ask for: snapshot columns on every
\* allow-list, on some of them, and a name that is no column.
QueryMetrics == {"median_price_usd_m2", "p25_price_usd_m2", "new_listings_7d", "price_m2"}

\* allowed_metrics of get_choropleth_data.
ChoroplethMetrics ==
    {"median_price_usd_m2", "avg_price_usd_m2", "listing_count", "avg_days_on_market",
     "rental_yield_estimate", "p25_price_usd_m2", "p75_price_usd_m2"}

\* allowed_metrics of get_barrio_trends.
TrendsMetrics ==
    {"median_price_usd_m2", "avg_price_usd_m2", "p25_price_usd_m2", "p75_price_usd_m2",
     "listing_count", "avg_days_on_market", "new_listings_7d", "removed_listings_7d",
     "rental_yield_estimate"}

\* allowed_metrics of get_barrio_ranking.
RankingMetrics ==
    {"median_price_usd_m2", "avg_price_usd_m2", "listing_count", "avg_days_on_market",
     "rental_yield_estimate"}

\* The columns of BarrioSnapshot, the names getattr finds.
SnapshotColumns ==
    {"id", "barrio_id", "snapshot_date", "operation_type", "property_type",
     "listing_count", "median_price_usd_m2", "avg_price_usd_m2", "p25_price_usd_m2",
     "p75_price_usd_m2", "avg_days_on_market", "new_listings_7d", "removed_listings_7d",
     "rental_yield_estimate", "usd_blue_rate"}

\* The check being left out.
Rejected_Never(metric, allowed_metrics) == FALSE

\* `if metric not in allowed_metrics`.
Rejected(metric, allowed_metrics) == metric \notin allowed_metrics

\* The call up to its first await: the metric is validated, the column looked
\* up, and the statement built.
Called(q, statement, allowed_metrics) ==
    IF Rejected(q.metric, allowed_metrics) THEN [q EXCEPT !.pc = "done", !.error = "ValueError"]
    ELSE IF q.metric \notin SnapshotColumns
         THEN [q EXCEPT !.pc = "done", !.error = "AttributeError"]
         ELSE [q EXCEPT !.pc = statement]

\* db.execute(stmt) and the response built from its rows.
Executed(q, statement, response) ==
    [q EXCEPT !.pc = "done", !.executed = Append(q.executed, statement), !.response = response]

\* The power of ten a stored metric counts: Numeric(.., 2) prices, a
\* Numeric(.., 1) average of days, integer counts.
MetricExp(metric) ==
    IF metric \in {"listing_count", "new_listings_7d", "removed_listings_7d"} THEN 0
    ELSE IF metric = "avg_days_on_market" THEN 0 - 1 ELSE 0 - 2

\* float(row.metric_value) if row.metric_value is not None else None.
MetricFloat(v, metric) == IF v = NULL THEN None ELSE FromInt(v, MetricExp(metric))

\* The rows of a set in the order of a key, rows of one key in the order of
\* their ids.
RECURSIVE OrderBy(_, _)
OrderBy(S, key) ==
    IF S = {} THEN <<>>
    ELSE LET r == CHOOSE x \in S : \A y \in S :
                      key[x] < key[y] \/ (key[x] = key[y] /\ x.id <= y.id)
         IN  <<r>> \o OrderBy(S \ {r}, key)

\* The snapshots the first outer join of get_choropleth_data joins to a
\* barrio.
JoinedSnapshots(snaps, barrio_id, operation_type) ==
    {s \in snaps : s.barrio_id = barrio_id /\ s.operation_type = operation_type}

\* Those of them the WHERE clause keeps: latest_sub joined to them.
LatestSnapshots(snaps, barrio_id, operation_type) ==
    {s \in JoinedSnapshots(snaps, barrio_id, operation_type) :
        s.snapshot_date = MaxDate(snaps, barrio_id, operation_type)}

\* The feature of a row of the choropleth statement.
Feature(barrio_id, barrio, metric, value, listing_count, snapshot_date) ==
    [ geometry      |-> barrio.geometry,
      barrio_id     |-> barrio_id,
      name          |-> barrio.name,
      slug          |-> barrio.slug,
      metric        |-> metric,
      value         |-> value,
      listing_count |-> listing_count,
      snapshot_date |-> snapshot_date ]

SnapshotFeatures(barrio_id, barrio, metric, rows) ==
    [i \in DOMAIN rows |->
        Feature(barrio_id, barrio, metric, MetricFloat(rows[i][metric], metric),
                rows[i].listing_count, rows[i].snapshot_date)]

\* The features of one barrio: none without geometry, one with nulls if no
\* snapshot is joined, else one per row the WHERE clause keeps.
BarrioFeatures(bs, snaps, barrio_id, metric, operation_type) ==
    IF bs[barrio_id].geometry = NoGeometry THEN <<>>
    ELSE IF JoinedSnapshots(snaps, barrio_id, operation_type) = {}
         THEN <<Feature(barrio_id, bs[barrio_id], metric, None, NULL, NULL)>>
         ELSE SnapshotFeatures(barrio_id, bs[barrio_id], metric,
                  OrderBy(LatestSnapshots(snaps, barrio_id, operation_type),
                          [s \in snaps |-> s.id]))

RECURSIVE ChoroplethFeatures(_, _, _, _, _)
ChoroplethFeatures(bs, snaps, metric, operation_type, barrio_id) ==
    IF barrio_id > Len(bs) THEN <<>>
    ELSE BarrioFeatures(bs, snaps, barrio_id, metric, operation_type)
         \o ChoroplethFeatures(bs, snaps, metric, operation_type, barrio_id + 1)

\* The FeatureCollection get_choropleth_data returns.
FeatureCollection(features, metric, operation_type) ==
    [ features |-> features,
      metadata |-> [ metric         |-> metric,
                     operation_type |-> operation_type,
                     feature_count  |-> Len(features) ] ]

\* The rows of the statement of get_barrio_trends.
TrendRows(bs, snaps, slug, from_date, to_date) ==
    {s \in snaps :
        /\ s.barrio_id \in DOMAIN bs
        /\ bs[s.barrio_id].slug = slug
        /\ from_date # NULL => s.snapshot_date >= from_date
        /\ to_date # NULL => s.snapshot_date <= to_date}

TrendPoints(rows, metric) ==
    [i \in DOMAIN rows |->
        [ date           |-> rows[i].snapshot_date,
          operation_type |-> rows[i].operation_type,
          property_type  |-> rows[i].property_type,
          value          |-> MetricFloat(rows[i][metric], metric) ]]

\* The rows of the statement of get_barrio_ranking, before ORDER BY.
RankingRows(bs, snaps, metric, operation_type) ==
    {s \in snaps :
        /\ s.barrio_id \in DOMAIN bs
        /\ s.snapshot_date = MaxDate(snaps, s.barrio_id, operation_type)
        /\ s.operation_type = operation_type
        /\ s[metric] # NULL}

Ranked(bs, rows, metric) ==
    [i \in DOMAIN rows |->
        [ rank          |-> i,
          barrio_id     |-> rows[i].barrio_id,
          slug          |-> bs[rows[i].barrio_id].slug,
          value         |-> rows[i][metric],
          metric        |-> metric,
          listing_count |-> rows[i].listing_count ]]

\* api/v1/map.py, choropleth, and get_choropleth_data up to db.execute.
ChoroplethCall ==
    /\ query.pc = "idle"
    /\ \E metric \in QueryMetrics, op \in {"sale", "rent"} :
          query' = Called([QueryLocals EXCEPT !.fn = "get_choropleth_data",
                                              !.metric = metric,
                                              !.operation_type = op],
                          "choropleth", ChoroplethMetrics)
    /\ UNCHANGED <<seed, request, heatVars, snapVars, roiVars>>

\* Lines 88-124 of map_service.py.
ChoroplethQuery ==
    /\ query.pc = "choropleth"
    /\ query' = Executed(query, "choropleth",
          FeatureCollection(ChoroplethFeatures(barrios, barrio_snapshots, query.metric,
                                               query.operation_type, 1),
                            query.metric, query.operation_type))
    /\ UNCHANGED <<seed, request, heatVars, snapVars, roiVars>>

\* get_barrio_trends up to db.execute.
TrendsCall ==
    /\ query.pc = "idle"
    /\ \E metric \in QueryMetrics, slug \in {"a", "b"}, from_date \in {NULL, 1} :
          query' = Called([QueryLocals EXCEPT !.fn = "get_barrio_trends",
                                              !.metric = metric,
                                              !.slug = slug,
                                              !.range_row = <<from_date, NULL>>],
                          "trends", TrendsMetrics)
    /\ UNCHANGED <<seed, request, heatVars, snapVars, roiVars>>

\* Lines 204-215 of barrio_service.py.
TrendsQuery ==
    /\ query.pc = "trends"
    /\ query' = Executed(query, "trends",
          TrendPoints(OrderBy(TrendRows(barrios, barrio_snapshots, query.slug,
                                        query.range_row[1], query.range_row[2]),
                              [s \in barrio_snapshots |-> s.snapshot_date]),
                      query.metric))
    /\ UNCHANGED <<seed, request, heatVars, snapVars, roiVars>>

\* get_barrio_ranking up to db.execute.
RankingCall ==
    /\ query.pc = "idle"
    /\ \E metric \in QueryMetrics, op \in {"sale", "rent"}, order \in {"asc", "desc"} :
          query' = Called([QueryLocals EXCEPT !.fn = "get_barrio_ranking",
                                              !.metric = metric,
                                              !.operation_type = op,
                                              !.order = order],
                          "ranking", RankingMetrics)
    /\ UNCHANGED <<seed, request, heatVars, snapVars, roiVars>>

\* Lines 307-350 of barrio_service.py.
RankingQuery ==
    /\ query.pc = "ranking"
    /\ query' = Executed(query, "ranking",
          Ranked(barrios,
                 OrderBy(RankingRows(barrios, barrio_snapshots, query.metric,
                                     query.operation_type),
                         [s \in barrio_snapshots |->
                             IF s[query.metric] = NULL THEN 0
                             ELSE IF query.order = "asc" THEN s[query.metric]
                             ELSE 0 - s[query.metric]]),
                 query.metric))
    /\ UNCHANGED <<seed, request, heatVars, snapVars, roiVars>>

\* The barrios table: the first barrio with a geometry and the second
\* without one, or the other way round.
BarrioTables ==
    { <<BarrioRow("a", Triangle, 5000), BarrioRow("b", NoGeometry, NULL)>>,
      <<BarrioRow("a", NoGeometry, NULL), BarrioRow("b", SquareE, 16700)>> }

\* The queries are called while the ingestion and the snapshot task write
\* the tables they read.
InitQuery ==
    /\ SnapshotInit
    /\ RoiIdle
    /\ barrios \in BarrioTables
    /\ HeatCallersIdle
    /\ QueryIdle

NextQuery ==
    \/ task_pc = "idle" /\ ImportListing
    \/ TaskStart
    \/ StatsQuery
    \/ NewCountQuery
    \/ RemovedCountQuery
    \/ UpsertGroup
    \/ TaskCommit
    \/ ChoroplethCall
    \/ ChoroplethQuery
    \/ TrendsCall
    \/ TrendsQuery
    \/ RankingCall
    \/ RankingQuery

SpecQuery == InitQuery /\ [][NextQuery]_vars

----------------------------------------------------------------------------
(* get_price_distribution.                                                 *)

\* The WHERE clause of both statements of get_price_distribution.
PricedWhere(l, barrio_id) ==
    /\ l.is_active = TRUE
    /\ l.price_usd_blue # NULL
    /\ l.price_usd_blue > 0
    /\ barrio_id # NULL => l.barrio_id = barrio_id

\* The prices the statements aggregate.
PricedListings(ls, barrio_id) == SelectSeq(ls, LAMBDA l : PricedWhere(l, barrio_id))

\* min(price_usd_blue), max(price_usd_blue) and count(id): NULL minima and
\* maxima over no rows.
RangeRow(rows) ==
    [ min_price |-> IF rows = <<>> THEN NULL
                    ELSE CHOOSE v \in {rows[i].price_usd_blue : i \in DOMAIN rows} :
                             \A i \in DOMAIN rows : v <= rows[i].price_usd_blue,
      max_price |-> IF rows = <<>> THEN NULL
                    ELSE CHOOSE v \in {rows[i].price_usd_blue : i \in DOMAIN rows} :
                             \A i \in DOMAIN rows : v >= rows[i].price_usd_blue,
      total     |-> Len(rows) ]

\* PostgreSQL's width_bucket(operand, low, high, count) on double precision.
width_bucket(operand, low, high, count) ==
    IF FLt(operand, low) THEN 0
    ELSE IF FLe(high, operand) THEN count + 1
    ELSE FInt(FDiv(FMul(Dec(count, 0), FSub(operand, low)), FSub(high, low))) + 1

\* (max_price - min_price) / bins.
BinWidth(min_price, max_price, bins) == FDiv(FSub(max_price, min_price), Dec(bins, 0))

\* bucket_map: the rows of the histogram statement, bucket -> count.
BucketMap(rows, min_price, max_price, bins) ==
    [b \in {width_bucket(Dec(rows[i].price_usd_blue, 0), min_price,
                         FAdd(max_price, Dec(1, 0 - 2)), bins) : i \in DOMAIN rows} |->
        Cardinality({i \in DOMAIN rows :
            width_bucket(Dec(rows[i].price_usd_blue, 0), min_price,
                         FAdd(max_price, Dec(1, 0 - 2)), bins) = b})]

\* Lines 293-302.
BinData(bucket_map, min_price, bin_width, bins) ==
    [i \in 1..bins |->
        [ lower |-> FRound2(FAdd(min_price, FMul(Dec(i - 1, 0), bin_width))),
          upper |-> FRound2(FAdd(min_price, FMul(Dec(i, 0), bin_width))),
          count |-> IF i \in DOMAIN bucket_map THEN bucket_map[i] ELSE 0 ]]

\* Lines 254-266 for the row of the range statement.
RangeOutcome(q, row) ==
    IF row.min_price = NULL \/ row.max_price = NULL \/ row.total = 0
    THEN [q EXCEPT !.pc = "done", !.response = [bins |-> <<>>, total |-> 0]]
    ELSE IF FLe(BinWidth(Dec(row.min_price, 0), Dec(row.max_price, 0), q.bins), FZero)
         THEN [q EXCEPT !.pc = "done",
                        !.response = [ bins  |-> << [ lower |-> Dec(row.min_price, 0),
                                                      upper |-> Dec(row.max_price, 0),
                                                      count |-> row.total ] >>,
                                       total |-> row.total ]]
         ELSE [q EXCEPT !.pc = "histogram", !.range_row = row]

\* Lines 292-308 for the rows of the histogram statement.
HistogramOutcome(q, rows) ==
    [q EXCEPT !.pc = "done",
              !.response =
                  [ bins      |-> BinData(BucketMap(rows, Dec(q.range_row.min_price, 0),
                                                    Dec(q.range_row.max_price, 0), q.bins),
                                          Dec(q.range_row.min_price, 0),
                                          BinWidth(Dec(q.range_row.min_price, 0),
                                                   Dec(q.range_row.max_price, 0), q.bins),
                                          q.bins),
                    total     |-> q.range_row.total,
                    bin_width |-> FRound2(BinWidth(Dec(q.range_row.min_price, 0),
                                                   Dec(q.range_row.max_price, 0), q.bins)) ]]

\* The numbers of bins asked for: the least the endpoint accepts, and one more.
BinCounts == {5, 6}

\* api/v1/analytics.py, price_distribution, and get_price_distribution up to
\* its first db.execute.
DistributionCall ==
    /\ query.pc = "idle"
    /\ \E barrio_id \in {NULL, 1}, bins \in BinCounts :
          query' = [QueryLocals EXCEPT !.pc = "range",
                                       !.fn = "get_price_distribution",
                                       !.barrio_id = barrio_id,
                                       !.bins = bins]
    /\ UNCHANGED <<seed, request, heatVars, snapVars, roiVars>>

\* Lines 251-266: the range statement on the listings committed by now.
RangeQuery ==
    /\ query.pc = "range"
    /\ query' = RangeOutcome([query EXCEPT !.executed = Append(@, "range")],
                             RangeRow(PricedListings(listings, query.barrio_id)))
    /\ UNCHANGED <<seed, request, heatVars, snapVars, roiVars>>

\* Lines 289-308: the histogram statement on the listings committed by now.
HistogramQuery ==
    /\ query.pc = "histogram"
    /\ query' = HistogramOutcome([query EXCEPT !.executed = Append(@, "histogram")],
                                 PricedListings(listings, query.barrio_id))
    /\ UNCHANGED <<seed, request, heatVars, snapVars, roiVars>>

\* import_properati commits listings while the endpoint is served.
ImportDuringQuery == ImportRow(MaxListings + 1)

InitDist == InitSnap

NextDist ==
    \/ ImportDuringQuery
    \/ DistributionCall
    \/ RangeQuery
    \/ HistogramQuery

SpecDist == InitDist /\ [][NextDist]_vars

----------------------------------------------------------------------------
(* scripts/seed.py: compute_percentiles and seed_snapshots.                *)

\* Weekly snapshots the seed script generates per group.
SNAPSHOT_WEEKS == 24

\* The blue rate the seed script stamps on its snapshots.
BLUE_RATE_SELL == 1200

\* |x| = a * 10^e with e < -1, rounded at the digit of 10^-1.
RoundAt1(sign, a, p) ==
    FromInt(sign * RoundHalfEven(a \div p, Sign(2 * (a % p) - p)), 0 - 1)

\* round(x, 1).
FRound1(x) ==
    IF IsSpecial(x) \/ x.m = 0 \/ x.e >= 0 - 1 THEN x
    ELSE IF 0 - 1 - x.e > 8 THEN FZero
    ELSE RoundAt1(Sign(x.m), Abs(x.m), Pow10(0 - 1 - x.e))

\* sum(values), from the left.
RECURSIVE FSum(_, _)
FSum(values, acc) ==
    IF values = <<>> THEN acc ELSE FSum(Tail(values), FAdd(acc, Head(values)))

\* The least element first, ties in the order of the list.
RECURSIVE SelectionSort(_)
SelectionSort(values) ==
    IF values = <<>> THEN <<>>
    ELSE LET i == CHOOSE k \in DOMAIN values :
                      \A j \in DOMAIN values :
                          FLt(values[k], values[j]) \/ (~FLt(values[j], values[k]) /\ k <= j)
         IN  <<values[i]>>
             \o SelectionSort([k \in 1..(Len(values) - 1) |->
                                  IF k < i THEN values[k] ELSE values[k + 1]])

\* The list left as it came.
SortedValues_Unsorted(values) == values

\* sorted(values).
SortedValues(values) == SelectionSort(values)

\* s[lo] + frac * (s[hi] - s[lo]) of percentile.
Interpolated(s, lo, hi, frac) == FAdd(s[lo + 1], FMul(frac, FSub(s[hi + 1], s[lo + 1])))

\* The value at the floor of the index, without the interpolation.
percentile_Lower(s, pct) == s[FInt(FMul(pct, Dec(Len(s) - 1, 0))) + 1]

\* percentile(pct) over the sorted list s: idx = pct * (n - 1), lo =
\* int(idx), hi = min(lo + 1, n - 1), frac = idx - lo.
percentile(s, pct) ==
    Interpolated(s, FInt(FMul(pct, Dec(Len(s) - 1, 0))),
                 Min2(FInt(FMul(pct, Dec(Len(s) - 1, 0))) + 1, Len(s) - 1),
                 FSub(FMul(pct, Dec(Len(s) - 1, 0)),
                      Dec(FInt(FMul(pct, Dec(Len(s) - 1, 0))), 0)))

\* The result of compute_percentiles for the sorted list s.
Percentiles(s) ==
    [ median |-> FRound2(percentile(s, Dec(50, 0 - 2))),
      avg    |-> FRound2(FDiv(FSum(s, FZero), Dec(Len(s), 0))),
      p25    |-> FRound2(percentile(s, Dec(25, 0 - 2))),
      p75    |-> FRound2(percentile(s, Dec(75, 0 - 2))) ]

compute_percentiles(values) ==
    IF values = <<>> THEN [median |-> None, avg |-> None, p25 |-> None, p75 |-> None]
    ELSE Percentiles(SortedValues(values))

\* The WHERE clause of seed_snapshots.
SeedWhere(l) ==
    /\ l.is_active = TRUE
    /\ l.price_usd_blue # NULL
    /\ l.surface_covered_m2 # NULL
    /\ l.surface_covered_m2 > 0

\* The listings of one group as seed_snapshots keeps them.
GroupListings(ls, barrio_id, operation_type) ==
    SelectSeq(ls, LAMBDA l : SeedWhere(l) /\ l.barrio_id = barrio_id
                                          /\ l.operation_type = operation_type)

\* groups, one entry per key with its base prices and days on market.
Group(ls, barrio_id, operation_type) ==
    [ barrio_id      |-> barrio_id,
      operation_type |-> operation_type,
      base_prices    |-> [i \in DOMAIN GroupListings(ls, barrio_id, operation_type) |->
                             FDiv(Dec(GroupListings(ls, barrio_id, operation_type)[i].price_usd_blue, 0),
                                  Dec(GroupListings(ls, barrio_id, operation_type)[i].surface_covered_m2, 0))],
      dom            |-> [i \in DOMAIN GroupListings(ls, barrio_id, operation_type) |->
                             IF GroupListings(ls, barrio_id, operation_type)[i].days_on_market = NULL
                             THEN 0
                             ELSE GroupListings(ls, barrio_id, operation_type)[i].days_on_market] ]

\* sorted(groups.items()): by barrio_id, then by operation type.
SortedGroups(ls) ==
    SelectSeq([k \in 1..(2 * 3) |->
                  Group(ls, (k + 2) \div 3, <<"rent", "sale", "temporary_rent">>[((k - 1) % 3) + 1])],
              LAMBDA g : g.base_prices # <<>>)

\* drift = 1.0 + 0.005 * (i * 7 / 30).
Drift(i) == FAdd(One, FMul(Dec(5, 0 - 3), FDiv(Dec(i * 7, 0), Dec(30, 0))))

\* adjusted = [p * drift for p in base_prices].
Adjusted(base_prices, i) == [k \in DOMAIN base_prices |-> FMul(base_prices[k], Drift(i))]

RECURSIVE IntSum(_)
IntSum(seq) == IF seq = <<>> THEN 0 ELSE Head(seq) + IntSum(Tail(seq))

\* The dict seed_snapshots appends to the batch for a group and a week; the
\* two random counts are draws of the module's generator.
SeedData(g, i, snapshot_date, stats, new_7d, removed_7d) ==
    [ barrio_id           |-> g.barrio_id,
      snapshot_date       |-> snapshot_date,
      operation_type      |-> g.operation_type,
      property_type       |-> NULL,
      listing_count       |-> Len(g.base_prices),
      median_price_usd_m2 |-> ToUnits(stats.median, 2),
      avg_price_usd_m2    |-> ToUnits(stats.avg, 2),
      p25_price_usd_m2    |-> ToUnits(stats.p25, 2),
      p75_price_usd_m2    |-> ToUnits(stats.p75, 2),
      avg_days_on_market  |-> ToUnits(FRound1(FDiv(Dec(IntSum(g.dom), 0),
                                                   Dec(Len(g.dom), 0))), 1),
      new_listings_7d     |-> new_7d,
      removed_listings_7d |-> removed_7d,
      usd_blue_rate       |-> BLUE_RATE_SELL ]

\* The rows the bulk INSERT adds, their ids from the sequence.
BatchRows(batch, first_id) ==
    {InsertedRow(batch[k], first_id + k - 1) : k \in DOMAIN batch}

\* The locals of seed_snapshots before the call.
SeedStartLocals == [SeedLocals EXCEPT !.pc = "fetch"]

\* Lines 411-412: DELETE FROM barrio_snapshots, committed.
SeedStart ==
    /\ seed.pc = "idle"
    /\ task_pc = "idle"
    /\ barrio_snapshots' = {}
    /\ \E stream \in {0, 1} : seed' = [SeedStartLocals EXCEPT !.stream = stream]
    /\ UNCHANGED <<listings, currency_rates, snapshot_id_seq, today, clock, task_pc,
                   session_rows, blue_rate, run_date, todo, stats_row, new_count,
                   removed_count, written, runs, run_listings, last_run>>
    /\ UNCHANGED <<query, request, heatVars, roiVars>>

\* Lines 415-445: the dates, the listings fetched and grouped.
SeedFetch ==
    /\ seed.pc = "fetch"
    /\ seed' = [seed EXCEPT !.pc = IF SortedGroups(listings) = <<>> THEN "insert" ELSE "week",
                            !.groups = SortedGroups(listings),
                            !.i = 0]
    /\ UNCHANGED <<query, request, heatVars, snapVars, roiVars>>

\* Lines 447-480: the snapshot of the group at the head for week i.
SeedWeek ==
    /\ seed.pc = "week"
    /\ seed' = [seed EXCEPT
          !.values = SortedValues(Adjusted(seed.groups[1].base_prices, seed.i)),
          !.batch = Append(seed.batch,
              SeedData(seed.groups[1], seed.i, today - 7 * (SNAPSHOT_WEEKS - 1 - seed.i),
                       compute_percentiles(Adjusted(seed.groups[1].base_prices, seed.i)),
                       (seed.i + seed.stream) % 2, (seed.i \div 2 + seed.stream) % 2)),
          !.i = IF seed.i + 1 < SNAPSHOT_WEEKS THEN seed.i + 1 ELSE 0,
          !.groups = IF seed.i + 1 < SNAPSHOT_WEEKS THEN seed.groups ELSE Tail(seed.groups),
          !.pc = IF seed.i + 1 < SNAPSHOT_WEEKS \/ Tail(seed.groups) # <<>>
                 THEN "week" ELSE "insert"]
    /\ UNCHANGED <<query, request, heatVars, snapVars, roiVars>>

\* Lines 482-505: the bulk INSERT and the commit.
SeedInsert ==
    /\ seed.pc = "insert"
    /\ barrio_snapshots' = barrio_snapshots \cup BatchRows(seed.batch, snapshot_id_seq)
    /\ snapshot_id_seq' = snapshot_id_seq + Len(seed.batch)
    /\ seed' = [seed EXCEPT !.pc = "done", !.values = <<>>, !.groups = <<>>, !.batch = <<>>]
    /\ UNCHANGED <<listings, currency_rates, today, clock, task_pc,
                   session_rows, blue_rate, run_date, todo, stats_row, new_count,
                   removed_count, written, runs, run_listings, last_run>>
    /\ UNCHANGED <<query, request, heatVars, roiVars>>

\* A listing as seed_listings inserts it.
SeededListing(barrio_id, operation_type, price, surface, dom) ==
    [ barrio_id          |-> barrio_id,
      operation_type     |-> operation_type,
      is_active          |-> TRUE,
      price_usd_blue     |-> price,
      surface_covered_m2 |-> surface,
      days_on_market     |-> dom,
      first_seen_at      |-> 0,
      last_seen_at       |-> 0 ]

\* The listings tables seed_snapshots and the daily task find: groups of
\* four, three and two listings whose unit prices are not in order and
\* repeat, and a group of one listing priced zero.
SeededListings ==
    { << SeededListing(1, "sale", 700, 7, 10), SeededListing(1, "sale", 100, 2, 45),
         SeededListing(1, "sale", 250, 4, 3),  SeededListing(1, "sale", 300, 3, 0),
         SeededListing(1, "rent", 20, 7, 12),  SeededListing(1, "rent", 10, 3, 7) >>,
      << SeededListing(2, "sale", 300, 2, 30), SeededListing(2, "sale", 100, 3, 60),
         SeededListing(2, "sale", 100, 7, 90), SeededListing(1, "rent", 0, 2, 5) >> }

InitSeed ==
    /\ listings \in SeededListings
    /\ barrio_snapshots = {}
    /\ TaskInit
    /\ RoiIdle
    /\ AppIdle

NextSeed ==
    \/ SeedStart
    \/ SeedFetch
    \/ SeedWeek
    \/ SeedInsert
    \/ seed.pc \in {"idle", "done"} /\ TaskStart
    \/ StatsQuery
    \/ NewCountQuery
    \/ RemovedCountQuery
    \/ UpsertGroup
    \/ TaskCommit

SpecSeed == InitSeed /\ [][NextSeed]_vars

----------------------------------------------------------------------------
(* compute_percentiles on its own.                                          *)

\* The values of the lists: whole numbers, so that a quartile is a multiple
\* of 0.25 and round(.., 2) leaves it as it is.
PctValues == {100, 150, 200, 300, 400}

\* The lists, the empty one among them, in any order.
PctInputs == UNION {[1..n -> PctValues] : n \in 0..MaxValues}

InitPct ==
    /\ SnapshotInit
    /\ RoiIdle
    /\ HeatIdle
    /\ query = QueryLocals
    /\ request = RequestInit
    /\ \E values \in PctInputs :
          seed = [SeedLocals EXCEPT
                     !.pc = "percentiles",
                     !.values = [i \in DOMAIN values |-> Dec(values[i], 0)]]

\* compute_percentiles(values).
PercentilesCall ==
    /\ seed.pc = "percentiles"
    /\ seed' = [seed EXCEPT !.pc = "returned",
                            !.stats = <<compute_percentiles(seed.values)>>]
    /\ UNCHANGED <<query, request, heatVars, snapVars, roiVars>>

NextPct == PercentilesCall

SpecPct == InitPct /\ [][NextPct]_vars

----------------------------------------------------------------------------
(* get_cluster_data.                                                        *)

\* The zoom levels asked for: the coarsest, the finest whose cell is a whole
\* number of 10^-7 degrees, and the endpoint's default.
Zooms == {1, 9, 12}

RECURSIVE Pow2(_)
Pow2(n) == IF n = 0 THEN 1 ELSE 2 * Pow2(n - 1)

\* 180 degrees in units of 10^-7.
HalfTurn == 180 * Deg

\* Coordinates are Numeric(10, 7); a cell of 180 / 2^zoom degrees is a whole
\* number of units of 10^-7 / CellScale(zoom) degrees.
CellScale(zoom) == IF zoom <= 9 THEN 1 ELSE Pow2(zoom - 9)

\* cell_size = 180.0 / (2 ** zoom), in units of 10^-7 / CellScale(zoom).
ClusterCell(zoom) == IF zoom <= 9 THEN HalfTurn \div Pow2(zoom) ELSE HalfTurn \div Pow2(9)

\* floor(coordinate / cell_size) * cell_size, in units of
\* 10^-7 / CellScale(zoom); \div rounds towards minus infinity as floor does.
Bucket(coordinate, zoom) ==
    ((coordinate * CellScale(zoom)) \div ClusterCell(zoom)) * ClusterCell(zoom)

\* The WHERE clause of get_cluster_data; `bbox` is the value the caller
\* passed, unpacked as min_lon, min_lat, max_lon, max_lat.
ClusterWhere(l, bbox) ==
    /\ l.is_active = TRUE
    /\ l.latitude # NULL
    /\ l.longitude # NULL
    /\ bbox.given =>
          /\ FLe(bbox.text[2], FromInt(l.latitude, 0 - 7))
          /\ FLe(FromInt(l.latitude, 0 - 7), bbox.text[4])
          /\ FLe(bbox.text[1], FromInt(l.longitude, 0 - 7))
          /\ FLe(FromInt(l.longitude, 0 - 7), bbox.text[3])

\* The positions in the listings table of the rows the statement reads.
ClusterIds(ls, bbox) == {i \in DOMAIN ls : ClusterWhere(ls[i], bbox)}

\* GROUP BY lat_bucket, lon_bucket.
GroupKey(l, zoom) == <<Bucket(l.latitude, zoom), Bucket(l.longitude, zoom)>>

RECURSIVE SumOver(_, _, _)
SumOver(ls, ids, column) ==
    IF ids = {} THEN 0
    ELSE LET i == CHOOSE k \in ids : TRUE
         IN  (IF ls[i][column] = NULL THEN 0 ELSE ls[i][column])
             + SumOver(ls, ids \ {i}, column)

\* AVG(column) over the rows `ids` as a float; NULL when no row has a value.
AvgOver(ls, ids, column, exp) ==
    IF {i \in ids : ls[i][column] # NULL} = {} THEN None
    ELSE FDiv(FromInt(SumOver(ls, ids, column), exp),
              Dec(Cardinality({i \in ids : ls[i][column] # NULL}), 0))

\* One row of the grouped statement, for the listings `ids` of a cell.
ClusterRow(ls, ids, key) ==
    [ lat_bucket |-> key[1],
      lon_bucket |-> key[2],
      count      |-> Cardinality(ids),
      avg_lat    |-> AvgOver(ls, ids, "latitude", 0 - 7),
      avg_lon    |-> AvgOver(ls, ids, "longitude", 0 - 7),
      avg_price  |-> AvgOver(ls, ids, "price_usd_blue", 0) ]

\* The rows of the statement: one per key that some selected listing has.
ClusterRows(ls, bbox, zoom) ==
    { ClusterRow(ls, {i \in ClusterIds(ls, bbox) : GroupKey(ls[i], zoom) = key}, key) :
          key \in {GroupKey(ls[i], zoom) : i \in ClusterIds(ls, bbox)} }

\* Lines 450-458: the dict of one row.
ClusterPoint(row) ==
    [ lat           |-> row.avg_lat,
      lon           |-> row.avg_lon,
      count         |-> row.count,
      avg_price_usd |-> IF row.avg_price = None \/ row.avg_price.m = 0 THEN None
                        ELSE FRound2(row.avg_price) ]

\* The orders the database may return a set of rows in.
RowOrders(S) ==
    {order \in [1..Cardinality(S) -> S] : \A i, j \in DOMAIN order : order[i] = order[j] => i = j}

\* GET /map/clusters: the endpoint hands its bbox parameter on as it came.
ClusterCall ==
    /\ query.pc = "idle"
    /\ \E bbox \in BBoxParams, zoom \in Zooms :
          query' = [QueryLocals EXCEPT !.pc = "clusters",
                                       !.fn = "get_cluster_data",
                                       !.bbox = bbox,
                                       !.zoom = zoom]
    /\ UNCHANGED <<seed, request, heatVars, snapVars, roiVars>>

\* Lines 438-458: the bbox is unpacked (ValueError unless it has four
\* elements), the statement executed and the clusters built from its rows.
ClusterQuery ==
    /\ query.pc = "clusters"
    /\ IF query.bbox.given /\ Len(query.bbox.text) # 4
       THEN query' = [query EXCEPT !.pc = "done", !.error = "ValueError"]
       ELSE \E rows \in RowOrders(ClusterRows(listings, query.bbox, query.zoom)) :
               query' = [query EXCEPT !.pc = "done",
                                      !.executed = Append(@, "clusters"),
                                      !.rows = rows,
                                      !.response = [i \in DOMAIN rows |-> ClusterPoint(rows[i])]]
    /\ UNCHANGED <<seed, request, heatVars, snapVars, roiVars>>

\* The listings tables the clusters are asked on: two listings in one cell
\* at every zoom, neighbours that share a cell at zoom 1 only, a listing on
\* a cell's edge, one south-west of the origin, one without a price, one
\* without coordinates and an inactive one.
ClusterListings ==
    { << GeoListing("sale", TRUE, 1 * Deg, 1 * Deg, 100000, 50),
         GeoListing("rent", TRUE, 1 * Deg, 1 * Deg, 500, 50),
         GeoListing("sale", TRUE, 1 * Deg + 400000, 1 * Deg, NULL, 80),
         GeoListing("sale", TRUE, 0 - 3 * Deg, 0 - 5 * Deg, 120000, 60),
         GeoListing("sale", TRUE, NULL, NULL, 200000, 40) >>,
      << GeoListing("sale", TRUE, 3515625, 2 * 3515625, 300000, 100),
         GeoListing("sale", TRUE, 3515624, 2 * 3515625, 450000, 100),
         GeoListing("sale", FALSE, 3 * Deg, 3 * Deg, 200000, 50),
         GeoListing("rent", TRUE, 5 * Deg, 1, 0, 70) >> }

InitCluster ==
    /\ listings \in ClusterListings
    /\ barrio_snapshots = {}
    /\ TaskInit
    /\ RoiIdle
    /\ AppIdle

NextCluster ==
    \/ DeactivateListing
    \/ ClusterCall
    \/ ClusterQuery

SpecCluster == InitCluster /\ [][NextCluster]_vars

----------------------------------------------------------------------------
(* compute_daily_snapshots over tables with listings the statistics query   *)
(* leaves out, at rest during a run and written to during a run.            *)

\* A listing as the ingestion stored it on day `seen`.
StoredListing(barrio_id, operation_type, is_active, price, surface, seen) ==
    [ barrio_id          |-> barrio_id,
      operation_type     |-> operation_type,
      is_active          |-> is_active,
      price_usd_blue     |-> price,
      surface_covered_m2 |-> surface,
      days_on_market     |-> NULL,
      first_seen_at      |-> seen,
      last_seen_at       |-> seen ]

\* Groups that hold, beside a priced listing, an active listing without a
\* price, one without a covered area, and one that is inactive.
StoredListings ==
    { << StoredListing(1, "sale", TRUE, 100, 2, 0),
         StoredListing(1, "sale", TRUE, NULL, 2, 0),
         StoredListing(1, "sale", FALSE, 300, 2, 0) >>,
      << StoredListing(1, "rent", TRUE, 500, 2, 0),
         StoredListing(1, "rent", TRUE, 700, 0, 0),
         StoredListing(2, "rent", TRUE, 900, 3, 0) >> }

InitCounts ==
    /\ listings \in StoredListings
    /\ barrio_snapshots = {}
    /\ TaskInit
    /\ RoiIdle
    /\ AppIdle

\* The tables are written between runs only.
NextCounts ==
    \/ task_pc = "idle" /\ DeactivateListing
    \/ task_pc = "idle" /\ AdvanceDay
    \/ TaskStart
    \/ StatsQuery
    \/ NewCountQuery
    \/ RemovedCountQuery
    \/ UpsertGroup
    \/ TaskCommit
    \/ TaskFails

SpecCounts == InitCounts /\ [][NextCounts]_vars

----------------------------------------------------------------------------
(* compute_daily_snapshots while the ingestion or fetch_and_save_rates      *)
(* commits between its statements.                                          *)

\* A group with an active and an inactive listing.
RaceListings ==
    << StoredListing(1, "sale", TRUE, 100, 2, 0),
       StoredListing(1, "sale", FALSE, 300, 2, 0) >>

InitRace ==
    /\ listings = RaceListings
    /\ barrio_snapshots = {}
    /\ TaskInit
    /\ RoiIdle
    /\ AppIdle

\* The ingestion commits between the three statements of a group; every
\* engine of the repository runs at the default isolation level, READ
\* COMMITTED.
NextRace ==
    \/ task_pc \in {"new", "removed"} /\ DeactivateListing
    \/ task_pc \in {"new", "removed"} /\ ReactivateListing
    \/ FetchAndSaveRates
    \/ TaskStart
    \/ StatsQuery
    \/ NewCountQuery
    \/ RemovedCountQuery
    \/ UpsertGroup
    \/ TaskCommit

SpecRace == InitRace /\ [][NextRace]_vars

\* fetch_and_save_rates commits once more than it does between runs.
FetchDuringRun == FetchRates(MaxRates + 1)

\* fetch_and_save_rates commits at any point of a run.
NextRates ==
    \/ FetchDuringRun
    \/ TaskStart
    \/ StatsQuery
    \/ NewCountQuery
    \/ RemovedCountQuery
    \/ UpsertGroup
    \/ TaskCommit
    \/ TaskFails

SpecRates == InitCounts /\ [][NextRates]_vars

----------------------------------------------------------------------------
(* get_price_distribution over tables at rest with prices between the      *)
(* least and the greatest.                                                  *)

\* The prices of the tables: two of them on edges of the five bins between
\* 100 and 300.
HistPrices == {100, 140, 220, 300}

\* Three active listings, the second in another barrio.
HistListings ==
    { << StoredListing(1, "sale", TRUE, a, 2, 0),
         StoredListing(2, "sale", TRUE, b, 2, 0),
         StoredListing(1, "rent", TRUE, c, 2, 0) >> : a, b, c \in HistPrices }

InitHist ==
    /\ listings \in HistListings
    /\ barrio_snapshots = {}
    /\ TaskInit
    /\ RoiIdle
    /\ AppIdle

NextHist ==
    \/ DistributionCall
    \/ RangeQuery
    \/ HistogramQuery

SpecHist == InitHist /\ [][NextHist]_vars

----------------------------------------------------------------------------
(* Properties of the snapshot task. *)

\* The key of a snapshot row as the data model states it: the four columns,
\* an absent property_type being a key value like any other.
SameKey(r1, r2) ==
    /\ r1.barrio_id = r2.barrio_id
    /\ r1.snapshot_date = r2.snapshot_date
    /\ r1.operation_type = r2.operation_type
    /\ r1.property_type = r2.property_type

\* C1: barrio_snapshots holds at most one row per (barrio_id, snapshot_date,
\* operation_type, property_type) key, keys with an absent property_type
\* included.
C1_AtMostOneRowPerKey ==
    \A r1 \in barrio_snapshots, r2 \in barrio_snapshots :
        SameKey(r1, r2) => r1 = r2

\* A run commits having read the same date, the same listings and the same
\* latest rate as the run that committed before it.
RerunCommits ==
    /\ task_pc = "commit"
    /\ task_pc' = "idle"
    /\ last_run # <<>>
    /\ last_run[1].stable
    /\ last_run[1].snapshot_date = run_date
    /\ last_run[1].blue_rate = blue_rate
    /\ last_run[1].listings = run_listings
    /\ listings = run_listings

\* C2: running the task again on the same day over the same listings and
\* the same latest rate leaves barrio_snapshots as the first run left it.
C2_RerunIsIdempotent ==
    [][RerunCommits => barrio_snapshots' = barrio_snapshots]_vars

\* A listing that qualifies for the statistics of a group as the
\* specification words it: active, positive price, positive covered area.
QualifiesPositive(l, barrio_id, operation_type) ==
    /\ l.barrio_id = barrio_id
    /\ l.operation_type = operation_type
    /\ l.is_active
    /\ l.price_usd_blue # NULL /\ l.price_usd_blue > 0
    /\ l.surface_covered_m2 # NULL /\ l.surface_covered_m2 > 0

\* C3: the task writes a row for a group only if the group has a listing
\* that is active with a positive price and a positive covered area.
C3_RowOnlyForQualifyingGroup ==
    task_pc = "upsert" =>
        \E i \in DOMAIN listings :
            QualifiesPositive(listings[i], todo[1][1], todo[1][2])

\* The derived fields of a stored row are those the run just computed.
HasDerivedFieldsOf(r, data) ==
    /\ r.listing_count = data.listing_count
    /\ r.median_price_usd_m2 = data.median_price_usd_m2
    /\ r.avg_price_usd_m2 = data.avg_price_usd_m2
    /\ r.p25_price_usd_m2 = data.p25_price_usd_m2
    /\ r.p75_price_usd_m2 = data.p75_price_usd_m2
    /\ r.avg_days_on_market = data.avg_days_on_market
    /\ r.new_listings_7d = data.new_listings_7d
    /\ r.removed_listings_7d = data.removed_listings_7d
    /\ r.usd_blue_rate = data.usd_blue_rate

\* C4: when the task recomputes a key that already has a row, every derived
\* field of the stored row takes the newly computed value.
C4_RecomputeReplacesDerivedFields ==
    [][(task_pc = "upsert" /\ task_pc' # "upsert")
         => \A r \in session_rows :
               SameKey(r, CurrentData) =>
                  \E q \in session_rows' :
                      q.id = r.id /\ HasDerivedFieldsOf(q, CurrentData)]_vars

----------------------------------------------------------------------------
(* Properties of simulate_roi. *)

\* The request is one the specification calls invalid: purchase price <= 0,
\* monthly rent <= 0 or holding period < 1 (an absent key reads as its
\* default).
RequestInvalid ==
    \/ FLe(Get(params, "purchase_price_usd", FZero), FZero)
    \/ FLe(Get(params, "monthly_rent_usd", FZero), FZero)
    \/ Get(params, "holding_period_years", 10) < 1

\* Nothing of the projection, the IRR search or the result exists.
NothingComputed ==
    /\ cash_flows_for_irr = <<>>
    /\ yearly_cashflows = <<>>
    /\ total_rental_income = FZero
    /\ total_expenses = FZero
    /\ iteration = 0
    /\ npv = FZero
    /\ d_npv = FZero
    /\ irr = None
    /\ result = <<>>

\* C5: a request with purchase price <= 0, monthly rent <= 0 or holding
\* period < 1 ends in a ValueError raised before any cash flow, IRR or NPV
\* is computed, and no result is returned.
C5_InvalidRequestRejected ==
    (RequestInvalid /\ roi_pc # "start") =>
        /\ roi_pc = "done"
        /\ error = "ValueError"
        /\ NothingComputed

C5_Witness ==
    /\ roi_pc = "done"
    /\ error = "ValueError"
    /\ FLe(Get(params, "monthly_rent_usd", FZero), FZero)
    /\ ~FLe(Get(params, "purchase_price_usd", FZero), FZero)

\* C6: the result of every valid request has a total_investment equal to
\* purchase price * (1 + closing_costs_pct), closing_costs_pct being the
\* fraction of the request, and an annual_net_income field.
C6_TotalInvestment ==
    (roi_pc = "done" /\ ~RequestInvalid /\ "closing_costs_pct" \in DOMAIN params) =>
        /\ result # <<>>
        /\ "total_investment" \in DOMAIN result[1]
        /\ result[1].total_investment =
              FMul(params.purchase_price_usd,
                   FAdd(One, params.closing_costs_pct))
        /\ "annual_net_income" \in DOMAIN result[1]

\* The fields of the result other than the IRR.
OtherFields ==
    { "initial_investment", "final_property_value", "total_rental_income",
      "total_expenses", "total_return_pct", "npv_at_8pct",
      "holding_period_years", "yearly_cashflows" }

\* C7: the IRR search never makes simulate_roi fail: every step of the
\* search leaves the call without an exception, and a search that ends
\* without a rate is followed by a result with an absent IRR and every
\* other field.
C7_IrrSearchNeverFails ==
    [][/\ roi_pc = "irr" => (error' = "" /\ roi_pc' \in {"irr", "finish"})
       /\ (roi_pc = "finish" /\ irr = None) =>
              /\ result' # <<>>
              /\ result'[1].irr_pct = None
              /\ OtherFields \subseteq DOMAIN result'[1]]_vars

\* C8: _compute_irr ends within 200 passes of its loop, and it ends by
\* returning a rate or None.
C8_IrrTerminatesWithRateOrNone ==
    [][roi_pc = "irr" =>
          /\ iteration' <= 200
          /\ \/ roi_pc' = "irr"
             \/ roi_pc' = "finish" /\ (irr' = None \/ ~IsSpecial(irr'))]_vars

\* |x| < 1e-4
WithinRoundTripTolerance(x) == FLt(FAbs(x), Dec(1, 0 - 4))

FloatFields(r) == DOMAIN r \ {"holding_period_years", "yearly_cashflows"}

\* C10: the result holds the NPV at 8% and, in another field, the NPV at
\* the discount rate of the request.
C10_NpvAtRequestRate ==
    (roi_pc = "done" /\ result # <<>> /\ "discount_rate" \in DOMAIN params) =>
        /\ "npv_at_8pct" \in DOMAIN result[1]
        /\ result[1].npv_at_8pct =
              FRound2(_compute_npv(Dec(8, 0 - 2), cash_flows_for_irr))
        /\ \E k \in FloatFields(result[1]) \ {"npv_at_8pct"} :
              result[1][k] =
                  FRound2(_compute_npv(params.discount_rate, cash_flows_for_irr))

----------------------------------------------------------------------------
(* Properties of the heatmap. *)

\* The calls of _fill_polygon_with_points that have returned, of any caller.
ReturnedCalls == UNION {{heat[p].calls[i] : i \in DOMAIN heat[p].calls} : p \in Procs}

\* C11: _fill_polygon_with_points is deterministic: two calls with the same
\* polygon and the same target count return the same list of points, whether
\* they ran one after the other or at the same time, and whatever other
\* calls ran in between.
C11_FillIsDeterministic ==
    \A c \in ReturnedCalls, d \in ReturnedCalls :
        (c.geojson = d.geojson /\ c.target_count = d.target_count) => c.points = d.points

\* Both callers have filled the triangle and are now, at the same time, in
\* the middle of the grid of a later polygon.
C11_Witness ==
    /\ \A p \in Procs :
          /\ heat[p].pc = "fill"
          /\ rng[p] > 0
          /\ \E i \in DOMAIN heat[p].calls :
                /\ heat[p].calls[i].geojson = Triangle
                /\ heat[p].calls[i].points # <<>>
    /\ heat[1].lat # heat[2].lat

\* The bounding box of the polygons' vertices holds the point (lat, lon).
InBoundingBox(pt, vs) ==
    /\ FLe(MinCoord(vs, 1), pt[2]) /\ FLe(pt[2], MaxCoord(vs, 1))
    /\ FLe(MinCoord(vs, 2), pt[1]) /\ FLe(pt[1], MaxCoord(vs, 2))

\* Every point a call returned is inside one of its polygons and inside
\* their bounding box.
PointsInside(c) ==
    \A i \in DOMAIN c.points :
        /\ _point_in_any_polygon(c.points[i][2], c.points[i][1],
                                 _extract_polygon_rings(c.geojson))
        /\ InBoundingBox(c.points[i], Vertices(_extract_polygon_rings(c.geojson)))

\* Every coordinate of the points is in [0, 10].
WithinTen(points) ==
    \A i \in DOMAIN points :
        /\ FLe(FZero, points[i][1]) /\ FLe(points[i][1], Dec(10, 0))
        /\ FLe(FZero, points[i][2]) /\ FLe(points[i][2], Dec(10, 0))

\* The call of the caller that has just returned.
LastCall(h) == h.calls[Len(h.calls)]

\* C12: every point _fill_polygon_with_points returns passes the
\* point-in-polygon test and lies within the polygon's bounding box, although
\* the grid points are jittered; for the square of side 10 every longitude
\* and latitude is in [0, 10].
C12_ReturnedPointsInside ==
    [][\A p \in Procs :
          Len(heat'[p].calls) > Len(heat[p].calls) =>
              /\ PointsInside(LastCall(heat'[p]))
              /\ LastCall(heat'[p]).geojson = SquareE => WithinTen(LastCall(heat'[p]).points)]_vars

\* The square of side 10 has been filled with its points, the first two of
\* them, of one grid row, jittered to different latitudes.
C12_Witness ==
    \E p \in Procs :
        /\ heat[p].calls # <<>>
        /\ LastCall(heat[p]).geojson = SquareE
        /\ Len(LastCall(heat[p]).points) >= 100
        /\ LastCall(heat[p]).points[1][1] # LastCall(heat[p]).points[2][1]

\* A geometry is degenerate if it has no rings, a ring without vertices, or
\* a bounding box of no width or no height.
Degenerate(g) ==
    \/ DOMAIN g = {}
    \/ _extract_polygon_rings(g) = <<>>
    \/ \E k \in DOMAIN _extract_polygon_rings(g) : _extract_polygon_rings(g)[k] = <<>>
    \/ \E k \in {1, 2} : MinCoord(Vertices(_extract_polygon_rings(g)), k)
                           = MaxCoord(Vertices(_extract_polygon_rings(g)), k)

\* The rows the polygon fallback of the caller's request reads.
FallbackRows(h) ==
    PolygonRows(barrios, PolygonSnapshots(barrios, barrio_snapshots, h.operation_type))

\* C13: the polygon fallback of the heatmap skips a barrio whose geometry is
\* empty or degenerate (no rings, a ring with zero vertices, a bounding box
\* of zero width or height): the barrio contributes no points, no error is
\* raised, and the points of the other barrios are still returned.
C13_DegenerateGeometrySkipped ==
    \A p \in Procs :
        ( /\ heat[p].pc = "done"
          /\ heat[p].source = "polygons"
          /\ \E i \in DOMAIN FallbackRows(heat[p]) : Degenerate(FallbackRows(heat[p])[i].geometry) )
        => /\ heat[p].error = ""
           /\ heat[p].response.total = Len(heat[p].all_points)
           /\ \A i \in DOMAIN heat[p].calls :
                  Degenerate(heat[p].calls[i].geojson) => heat[p].calls[i].points = <<>>
           /\ \A i \in DOMAIN FallbackRows(heat[p]) :
                  ~Degenerate(FallbackRows(heat[p])[i].geometry) =>
                      \E j \in DOMAIN heat[p].calls :
                          /\ heat[p].calls[j].geojson = FallbackRows(heat[p])[i].geometry
                          /\ heat[p].calls[j].points # <<>>

\* The caller's request has returned a response.
HasResponse(h) == h.pc = "done" /\ h.error = ""

\* The weight of the response's point i is w.
WeightIs(h, i, w) == h.response.points[i].weight = w

\* C14: when at least one point has a price, every weight _normalize_weights
\* produces is in [0.15, 1.0]; when there are at least two distinct prices,
\* the points with the lowest price get exactly 0.15 and those with the
\* highest price exactly 1.0.
C14_WeightsWithinRange ==
    \A p \in Procs :
        (HasResponse(heat[p]) /\ heat[p].all_prices # <<>>) =>
            /\ \A i \in DOMAIN heat[p].response.points :
                  /\ FLe(Dec(15, 0 - 2), heat[p].response.points[i].weight)
                  /\ FLe(heat[p].response.points[i].weight, Dec(1, 0))
            /\ Len(sorted_unique(heat[p].all_prices)) >= 2 =>
                  \A i \in DOMAIN heat[p].all_points :
                      /\ heat[p].all_points[i].price_m2 = sorted_unique(heat[p].all_prices)[1]
                            => WeightIs(heat[p], i, Dec(15, 0 - 2))
                      /\ heat[p].all_points[i].price_m2
                            = sorted_unique(heat[p].all_prices)[Len(sorted_unique(heat[p].all_prices))]
                            => WeightIs(heat[p], i, Dec(1, 0))

\* A response whose points have three distinct prices, and one point none.
C14_Witness ==
    \E p \in Procs :
        /\ HasResponse(heat[p])
        /\ Len(sorted_unique(heat[p].all_prices)) >= 3
        /\ \E i \in DOMAIN heat[p].all_points : heat[p].all_points[i].price_m2 = None
        /\ \E i \in DOMAIN heat[p].all_points : WeightIs(heat[p], i, Dec(1, 0))
        /\ \E i \in DOMAIN heat[p].all_points : WeightIs(heat[p], i, Dec(15, 0 - 2))

Qualifies(l, h) ==
    /\ l.is_active = TRUE
    /\ l.latitude # NULL
    /\ l.longitude # NULL
    /\ l.operation_type = h.operation_type
    /\ h.bbox.given =>
          /\ FLe(h.bbox.box[1], FromInt(l.longitude, 0 - 7))
          /\ FLe(FromInt(l.longitude, 0 - 7), h.bbox.box[3])
          /\ FLe(h.bbox.box[2], FromInt(l.latitude, 0 - 7))
          /\ FLe(FromInt(l.latitude, 0 - 7), h.bbox.box[4])

\* The number of points the fill calls of the request returned.
RECURSIVE FillTotal(_)
FillTotal(calls) ==
    IF calls = <<>> THEN 0 ELSE Len(Head(calls).points) + FillTotal(Tail(calls))

\* C16: get_heatmap_data returns listing-derived points whenever at least one
\* listing qualifies (active, with coordinates, of the operation type and
\* within the optional bounding box) and polygon-fill points only when none
\* qualifies; the two sources are never mixed in one result and the metric
\* names the source used.
C16_ListingsPreferred ==
    \A p \in Procs :
        heat[p].pc = "done" =>
            IF \E i \in DOMAIN listings : Qualifies(listings[i], heat[p])
            THEN /\ HasResponse(heat[p])
                 /\ heat[p].source = "listings"
                 /\ heat[p].response.metric = "price_usd_m2"
                 /\ heat[p].calls = <<>>
                 /\ heat[p].response.total
                       = Len(SelectSeq(listings, LAMBDA l : Qualifies(l, heat[p])))
            ELSE HasResponse(heat[p]) =>
                 /\ heat[p].source = "polygons"
                 /\ heat[p].response.metric = "median_price_usd_m2"
                 /\ heat[p].response.total = FillTotal(heat[p].calls)

----------------------------------------------------------------------------
(* Properties of the queries. *)

\* The allow-list of the function the query calls.
AllowList(fn) ==
    IF fn = "get_choropleth_data" THEN ChoroplethMetrics
    ELSE IF fn = "get_barrio_trends" THEN TrendsMetrics
    ELSE RankingMetrics

\* C17: get_choropleth_data, get_barrio_trends and get_barrio_ranking reject
\* a metric outside their allow-list with an error before any database query
\* is executed.
C17_InvalidMetricRejected ==
    (query.pc # "idle" /\ query.metric \notin AllowList(query.fn)) =>
        /\ query.pc = "done"
        /\ query.error = "ValueError"
        /\ query.executed = <<>>
        /\ query.response = <<>>

\* get_choropleth_data has rejected new_listings_7d, a column of the
\* snapshots that is on the allow-list of get_barrio_trends only, while the
\* table held rows a query would have read.
C17_Witness ==
    /\ query.pc = "done"
    /\ query.fn = "get_choropleth_data"
    /\ query.metric = "new_listings_7d"
    /\ query.error = "ValueError"
    /\ barrio_snapshots # {}

\* The features of the collection that belong to the barrio.
FeaturesOf(collection, barrio_id) ==
    {i \in DOMAIN collection.features : collection.features[i].barrio_id = barrio_id}

\* The collection has exactly one feature of the barrio, with the metric's
\* value of a latest snapshot of the barrio for the operation type, or null
\* if the barrio has no such snapshot.
OneFeatureWithLatestValue(collection, snaps, barrio_id, metric, operation_type) ==
    /\ Cardinality(FeaturesOf(collection, barrio_id)) = 1
    /\ \A i \in FeaturesOf(collection, barrio_id) :
          IF JoinedSnapshots(snaps, barrio_id, operation_type) = {}
          THEN collection.features[i].value = None
          ELSE \E s \in LatestSnapshots(snaps, barrio_id, operation_type) :
                  collection.features[i].value = MetricFloat(s[metric], metric)

\* C18: get_choropleth_data returns exactly one feature per barrio that has a
\* geometry, carrying the metric's value of the barrio's latest snapshot for
\* the operation type, or null if it has none, and no feature for a barrio
\* without geometry.
C18_OneFeaturePerBarrio ==
    [][(query.pc = "choropleth" /\ query'.pc = "done") =>
          \A b \in DOMAIN barrios :
              IF barrios[b].geometry = NoGeometry
              THEN FeaturesOf(query'.response, b) = {}
              ELSE OneFeatureWithLatestValue(query'.response, barrio_snapshots, b,
                                             query.metric, query.operation_type)]_vars

\* The sum of the bins' counts.
RECURSIVE CountSum(_)
CountSum(bins) == IF bins = <<>> THEN 0 ELSE Head(bins).count + CountSum(Tail(bins))

\* The bins are in ascending order.
Ascending(bins) ==
    /\ \A i \in DOMAIN bins : FLe(bins[i].lower, bins[i].upper)
    /\ \A i \in DOMAIN bins : i < Len(bins) => FLe(bins[i].lower, bins[i + 1].lower)

\* What the claim says of a call whose range statement read the priced
\* listings `rows`: no bins and total 0 if there are none, one bin
\* [min, max] with the full count if all prices are equal, else the call
\* goes on to the histogram.
RangeCase(q, rows) ==
    IF rows = <<>> THEN q.pc = "done" /\ q.response = [bins |-> <<>>, total |-> 0]
    ELSE IF \A i \in DOMAIN rows : rows[i].price_usd_blue = rows[1].price_usd_blue
         THEN /\ q.pc = "done"
              /\ q.response.total = Len(rows)
              /\ q.response.bins = << [ lower |-> Dec(rows[1].price_usd_blue, 0),
                                        upper |-> Dec(rows[1].price_usd_blue, 0),
                                        count |-> Len(rows) ] >>
         ELSE q.pc = "histogram"

\* C19: the bin counts of get_price_distribution always sum to the total it
\* reports; with no qualifying listing it returns no bins and total 0; with
\* all prices equal it returns one bin [min, max] with the full count;
\* otherwise it returns exactly `bins` bins in ascending order.
C19_BinCountsSumToTotal ==
    [][/\ (query.pc = "range" /\ query'.pc # "range") =>
             RangeCase(query', PricedListings(listings, query.barrio_id))
       /\ (query.pc = "histogram" /\ query'.pc = "done") =>
             /\ Len(query'.response.bins) = query.bins
             /\ Ascending(query'.response.bins)
       /\ (query.pc \in {"range", "histogram"} /\ query'.pc = "done") =>
             CountSum(query'.response.bins) = query'.response.total]_vars

----------------------------------------------------------------------------
(* Properties of the percentiles. *)

\* The percentages the monotonicity of percentile is checked over.
Percentages ==
    {Dec(0, 0), Dec(1, 0 - 1), Dec(25, 0 - 2), Dec(1, 0) , Dec(5, 0 - 1),
     Dec(75, 0 - 2), Dec(9, 0 - 1), Dec(333, 0 - 3)}

HasAllThree(r) ==
    /\ r.p25_price_usd_m2 # NULL
    /\ r.median_price_usd_m2 # NULL
    /\ r.p75_price_usd_m2 # NULL

\* C20: over the sorted list of a group, percentile does not decrease as the
\* percentage grows, and every stored snapshot that has its p25, its median
\* and its p75 has them in this order, whether the seed script or the daily
\* task wrote it.
C20_PercentilesOrdered ==
    /\ seed.values # <<>> =>
           \A p1, p2 \in Percentages :
               FLe(p1, p2) => FLe(percentile(seed.values, p1), percentile(seed.values, p2))
    /\ \A r \in barrio_snapshots :
           HasAllThree(r) =>
               /\ r.p25_price_usd_m2 <= r.median_price_usd_m2
               /\ r.median_price_usd_m2 <= r.p75_price_usd_m2

Spread(r) ==
    /\ HasAllThree(r)
    /\ r.listing_count = 4
    /\ r.p25_price_usd_m2 < r.median_price_usd_m2
    /\ r.median_price_usd_m2 < r.p75_price_usd_m2

\* The table holds a snapshot of four listings with three different
\* percentiles written by the seed script and one written by the daily task.
C20_Witness ==
    /\ seed.pc = "done"
    /\ \E r \in barrio_snapshots : Spread(r) /\ r.property_type = NULL /\ r.usd_blue_rate = BLUE_RATE_SELL
    /\ \E r \in barrio_snapshots : Spread(r) /\ r.usd_blue_rate # BLUE_RATE_SELL

----------------------------------------------------------------------------
(* Properties of the clusters. *)

\* The listings a cluster request is about: active, with coordinates, and
\* inside the request's box (west, south, east, north) when it names one.
ClusterQualifying(ls, bbox) ==
    {i \in DOMAIN ls :
        /\ ls[i].is_active = TRUE
        /\ ls[i].latitude # NULL
        /\ ls[i].longitude # NULL
        /\ bbox.given =>
              /\ FLe(bbox.box[2], FromInt(ls[i].latitude, 0 - 7))
              /\ FLe(FromInt(ls[i].latitude, 0 - 7), bbox.box[4])
              /\ FLe(bbox.box[1], FromInt(ls[i].longitude, 0 - 7))
              /\ FLe(FromInt(ls[i].longitude, 0 - 7), bbox.box[3])}

\* The coordinate lies in the cell of 180 / 2^zoom degrees that starts at
\* `bucket`.
InCell(coordinate, bucket, zoom) ==
    /\ bucket <= coordinate * CellScale(zoom)
    /\ coordinate * CellScale(zoom) < bucket + ClusterCell(zoom)

InClusterOf(l, row, zoom) ==
    /\ InCell(l.latitude, row.lat_bucket, zoom)
    /\ InCell(l.longitude, row.lon_bucket, zoom)

\* The clusters of a finished request partition the listings `ids`.
Partitioned(q, ls, ids) ==
    /\ q.error = ""
    /\ Len(q.response) = Len(q.rows)
    /\ \A j \in DOMAIN q.rows :
           /\ q.rows[j].lat_bucket % ClusterCell(q.zoom) = 0
           /\ q.rows[j].lon_bucket % ClusterCell(q.zoom) = 0
           /\ q.response[j].count >= 1
           /\ q.response[j].count
                = Cardinality({i \in ids : InClusterOf(ls[i], q.rows[j], q.zoom)})
    /\ \A i \in ids :
           Cardinality({j \in DOMAIN q.rows : InClusterOf(ls[i], q.rows[j], q.zoom)}) = 1
    /\ CountSum(q.response) = Cardinality(ids)

\* C21: get_cluster_data partitions the active listings that have
\* coordinates, and lie in the bounding box if one is given, into grid cells
\* of 180 / 2^zoom degrees: every occupied cell yields exactly one cluster,
\* every such listing is counted in exactly one cluster, and the counts sum
\* to the number of these listings.
C21_ClustersPartitionListings ==
    [][(query.pc = "clusters" /\ query'.pc = "done") =>
          Partitioned(query', listings, ClusterQualifying(listings, query.bbox))]_vars

----------------------------------------------------------------------------
(* Properties of the snapshot's counts, its transaction and its rate. *)

\* The day lies in the 7 days that end at the snapshot date.
WithinTrailingWeek(day, snapshot_date) ==
    /\ snapshot_date - 7 <= day
    /\ day <= snapshot_date

\* The group's qualifying listings first seen in the window.
NewQualifying(ls, barrio_id, operation_type, snapshot_date) ==
    {i \in DOMAIN ls :
        /\ QualifiesPositive(ls[i], barrio_id, operation_type)
        /\ WithinTrailingWeek(ls[i].first_seen_at, snapshot_date)}

\* The group's inactive listings last seen in the window.
RemovedInWindow(ls, barrio_id, operation_type, snapshot_date) ==
    {i \in DOMAIN ls :
        /\ ls[i].barrio_id = barrio_id
        /\ ls[i].operation_type = operation_type
        /\ ls[i].is_active = FALSE
        /\ WithinTrailingWeek(ls[i].last_seen_at, snapshot_date)}

\* C22: in every snapshot new_listings_7d is the number of the group's
\* qualifying listings (active, positive price, positive covered area) first
\* seen within the 7 days ending at the snapshot date, and
\* removed_listings_7d the number of the group's now-inactive listings last
\* seen within the same window.
C22_CountsOfTrailingWeek ==
    task_pc = "upsert" =>
        /\ CurrentData.new_listings_7d
             = Cardinality(NewQualifying(listings, todo[1][1], todo[1][2], run_date))
        /\ CurrentData.removed_listings_7d
             = Cardinality(RemovedInWindow(listings, todo[1][1], todo[1][2], run_date))

\* A statement of the run raised: the run ends before its commit.
RunFails ==
    /\ task_pc \in {"stats", "new", "removed", "upsert"}
    /\ task_pc' = "idle"

\* The step belongs to a run and is not its commit.
RunStepBeforeCommit ==
    /\ task_pc # "idle"
    /\ ~(task_pc = "commit" /\ task_pc' = "idle")

\* C23: a run of compute_daily_snapshots is all-or-nothing.  No row the run
\* produces is visible before its commit, which comes after the last group;
\* when a statement of a group raises, the rows produced so far are dropped,
\* barrio_snapshots is what it was before the run, and the exception is
\* handed to retry, which reschedules the task while retries remain.
C23_RunIsAllOrNothing ==
    [][/\ RunStepBeforeCommit => barrio_snapshots' = barrio_snapshots
       /\ RunFails =>
             /\ barrio_snapshots' = barrio_snapshots
             /\ session_rows' = {}
             /\ request'.raised # ""
             /\ request.retries < max_retries =>
                   /\ request'.raised = "Retry"
                   /\ request'.retries = request.retries + 1]_vars

\* A first run failed after it had upserted a row: the table is empty, an
\* id of the sequence is spent, and a retry is scheduled.
C23_Witness ==
    /\ task_pc = "idle"
    /\ runs = 1
    /\ request = [retries |-> 1, raised |-> "Retry"]
    /\ snapshot_id_seq > 1
    /\ barrio_snapshots = {}

----------------------------------------------------------------------------
(* Properties of a run that other transactions commit into. *)

\* The listings the statistics statement of the current group counted.
CountedActive ==
    {i \in DOMAIN stats_row.seen :
        QualifiesPositive(stats_row.seen[i], todo[1][1], todo[1][2])}

\* The listings the statistics statement of the current group saw inactive.
SeenInactive ==
    {i \in DOMAIN stats_row.seen : stats_row.seen[i].is_active = FALSE}

\* The listings the new-count statement counts in the table as it is now.
CountedNew ==
    {i \in DOMAIN listings :
        /\ listings[i].barrio_id = todo[1][1]
        /\ listings[i].operation_type = todo[1][2]
        /\ listings[i].is_active = TRUE
        /\ listings[i].first_seen_at >= run_date - 7}

\* The listings the removed-count statement counts in the table as it is now.
CountedRemoved ==
    {i \in DOMAIN listings :
        /\ listings[i].barrio_id = todo[1][1]
        /\ listings[i].operation_type = todo[1][2]
        /\ listings[i].is_active = FALSE
        /\ listings[i].last_seen_at >= run_date - 7}

\* C24: within one snapshot row no listing is counted both in listing_count
\* (as active) and in removed_listings_7d (as inactive), and new_listings_7d
\* counts no listing that the statistics statement saw inactive, also when
\* the ingestion flips is_active between the three statements of the group.
C24_CountsOfOneSnapshot ==
    [][/\ (task_pc = "new" /\ task_pc' = "removed") =>
             /\ new_count' = Cardinality(CountedNew)
             /\ CountedNew \cap SeenInactive = {}
       /\ (task_pc = "removed" /\ task_pc' = "upsert") =>
             /\ removed_count' = Cardinality(CountedRemoved)
             /\ CountedRemoved \cap CountedActive = {}]_vars

\* The blue rows of currency_rates.
BlueRows == {i \in DOMAIN currency_rates : currency_rates[i].rate_type = "blue"}

\* The sell rate of the blue row no other blue row is newer than; NULL
\* without a blue row.
NewestBlueSell ==
    IF BlueRows = {} THEN NULL
    ELSE currency_rates[CHOOSE i \in BlueRows :
             \A j \in BlueRows :
                 currency_rates[j].recorded_at <= currency_rates[i].recorded_at].sell

\* The sell rate the run read: the stored rate whose float the local holds.
SellRead ==
    CHOOSE sell \in {NULL} \cup {currency_rates[i].sell : i \in BlueRows} :
        blue_rate = (IF sell = NULL THEN None ELSE FromInt(sell, 0))

\* C25: every row a run writes carries the sell rate of the blue row with the
\* greatest recorded_at at the moment the run read it: the run reads the
\* newest blue rate when it starts, keeps it to its end, and every upsert
\* sends it, so all rows of one run carry the same rate, also when
\* fetch_and_save_rates inserts newer rates while the run is in progress.
C25_OneRatePerRun ==
    [][/\ (task_pc = "idle" /\ task_pc' # "idle") =>
             blue_rate' = (IF NewestBlueSell = NULL THEN None
                           ELSE FromInt(NewestBlueSell, 0))
       /\ (task_pc # "idle" /\ task_pc' # "idle") =>
             blue_rate' = blue_rate
       /\ (task_pc = "upsert") =>
             \A r \in session_rows' \ session_rows : r.usd_blue_rate = SellRead]_vars

\* A run that read a rate and wrote a row with it is about to write its next
\* row after a newer rate was recorded.
C25_Witness ==
    /\ task_pc = "upsert"
    /\ written = 1
    /\ SellRead = BlueSellAt(0)
    /\ NewestBlueSell = BlueSellAt(1)
    /\ \E r \in session_rows : r \notin barrio_snapshots /\ r.usd_blue_rate = BlueSellAt(0)

----------------------------------------------------------------------------
(* Properties of the projection loop of simulate_roi. *)

\* The step is a pass of the year loop.
YearProjected ==
    /\ roi_pc = "project"
    /\ Len(yearly_cashflows') = Len(yearly_cashflows) + 1

\* The rent of a year after vacancy less the expenses on a value.
NetOn(rent, value) ==
    FSub(FMul(FMul(rent, Twelve), FSub(One, vacancy)), FMul(value, expenses_pct))

\* C26: in each simulated year the expenses are a share of the property value
\* before that year's appreciation, the year ends with the appreciated value,
\* the sale proceeds of the final year are taken from the value after the
\* final year's appreciation, and the rent of a year is the rent before that
\* year's increase: year 1 has the rent of the request, the increase applies
\* from the following year.
C26_OrderWithinYear ==
    [][YearProjected =>
         LET rec    == yearly_cashflows'[Len(yearly_cashflows')]
             annual == cash_flows_for_irr'[Len(cash_flows_for_irr')]
         IN  /\ rec.year = year
             /\ year = 1 => current_rent = monthly_rent /\ property_value = purchase_price
             /\ rec.expenses = FRound2(FMul(property_value, expenses_pct))
             /\ property_value' = FMul(property_value, FAdd(One, appreciation))
             /\ rec.property_value = FRound2(property_value')
             /\ rec.gross_rent = FRound2(FMul(current_rent, Twelve))
             /\ current_rent' = FMul(current_rent, FAdd(One, rent_increase))
             /\ year = years =>
                   annual = FAdd(NetOn(current_rent, property_value),
                                 FMul(property_value', FSub(One, closing_costs_pct)))
             /\ year # years => annual = NetOn(current_rent, property_value)]_vars

\* A projection over several years with appreciation and a rent increase
\* has returned: the expenses of year 2 are those of the value year 1 ended
\* with, and its rent is above that of year 1.
C26_Witness ==
    /\ roi_pc = "done"
    /\ result # <<>>
    /\ years >= 2
    /\ FLt(FZero, appreciation)
    /\ FLt(FZero, rent_increase)
    /\ FLt(yearly_cashflows[1].expenses, yearly_cashflows[2].expenses)
    /\ FLt(yearly_cashflows[1].gross_rent, yearly_cashflows[2].gross_rent)
    /\ yearly_cashflows[1].gross_rent = FRound2(FMul(monthly_rent, Twelve))
    /\ yearly_cashflows[years].sale_proceeds # None

\* The projection is complete: the vector is with _compute_irr or beyond.
Projected ==
    \/ roi_pc \in {"irr", "finish"}
    \/ roi_pc = "done" /\ error # "ValueError"

\* C27: for a holding period of N years the cash-flow vector handed to the
\* IRR and NPV computations has N + 1 entries, the first being the negated
\* initial outlay; yearly_cashflows has N records numbered 1..N in increasing
\* order; sale proceeds are part of the entry and the record of year N only.
C27_ShapeOfCashFlows ==
    Projected =>
        /\ Len(cash_flows_for_irr) = years + 1
        /\ initial_cost = FMul(purchase_price, FAdd(One, closing_costs_pct))
        /\ cash_flows_for_irr[1] = FNeg(initial_cost)
        /\ Len(yearly_cashflows) = years
        /\ \A k \in 1..years : yearly_cashflows[k].year = k
        /\ \A k \in 1..(years - 1) :
              /\ yearly_cashflows[k].sale_proceeds = None
              /\ yearly_cashflows[k].total_cash_flow = yearly_cashflows[k].net_income
        /\ yearly_cashflows[years].sale_proceeds
              = RoundOrNoneF(FMul(property_value, FSub(One, closing_costs_pct)))

\* A projection over ten years has returned with the proceeds of the sale in
\* the record of year 10.
C27_Witness ==
    /\ roi_pc = "done"
    /\ result # <<>>
    /\ years = 10
    /\ Len(cash_flows_for_irr) = 11
    /\ yearly_cashflows[10].sale_proceeds # None
    /\ yearly_cashflows[10].total_cash_flow # yearly_cashflows[10].net_income

----------------------------------------------------------------------------
(* Properties of the histogram. *)

\* floor((price - min) / width) kept within 0..bins - 1.
BinOf(price, min_price, width, bins) ==
    LET n == FInt(FDiv(FSub(Dec(price, 0), min_price), width))
    IN  IF n < 0 THEN 0 ELSE IF n > bins - 1 THEN bins - 1 ELSE n

\* The prices of the rows whose bin is the one numbered n from 0.
InBin(rows, n, min_price, width, bins) ==
    {k \in DOMAIN rows : BinOf(rows[k].price_usd_blue, min_price, width, bins) = n}

\* C28: in a histogram that is not degenerate each listing is counted in bin
\* floor((price - min) / width), width = (max - min) / bins, kept within
\* 0..bins - 1: the count of every bin is the number of listings with that
\* bin, and the price of each lies between the edges reported for its bin.
C28_BinOfEachListing ==
    [][(query.pc = "histogram" /\ query'.pc = "done") =>
         LET rows      == PricedListings(listings, query.barrio_id)
             min_price == Dec(query.range_row.min_price, 0)
             max_price == Dec(query.range_row.max_price, 0)
             width     == FDiv(FSub(max_price, min_price), Dec(query.bins, 0))
             reported  == query'.response.bins
         IN  RangeRow(rows) = query.range_row =>
               \A n \in 0..(query.bins - 1) :
                   /\ reported[n + 1].count
                        = Cardinality(InBin(rows, n, min_price, width, query.bins))
                   /\ \A k \in InBin(rows, n, min_price, width, query.bins) :
                        /\ FLe(reported[n + 1].lower, Dec(rows[k].price_usd_blue, 0))
                        /\ FLe(Dec(rows[k].price_usd_blue, 0), reported[n + 1].upper)]_vars

----------------------------------------------------------------------------
(* Properties of compute_percentiles. *)

\* The k-th least of the whole numbers xs, k from 1.
OrderStat(xs, k) ==
    CHOOSE v \in {xs[i] : i \in DOMAIN xs} :
        /\ Cardinality({i \in DOMAIN xs : xs[i] < v}) < k
        /\ k <= Cardinality({i \in DOMAIN xs : xs[i] <= v})

\* Four hundred times the value interpolated at index quarters / 4 * (n - 1)
\* between the values at the floor and at the ceiling of the index.
InterpolatedAt(xs, quarters) ==
    LET pos   == quarters * (Len(xs) - 1)
        floor == pos \div 4
        ceil  == IF pos % 4 = 0 THEN floor ELSE floor + 1
    IN  25 * (4 * OrderStat(xs, floor + 1)
                + (pos % 4) * (OrderStat(xs, ceil + 1) - OrderStat(xs, floor + 1)))

\* The statistic, in hundredths, is the interpolated value and lies between
\* the least and the greatest of xs.
IsPercentile(stat, xs, quarters) ==
    /\ ToUnits(stat, 2) = InterpolatedAt(xs, quarters)
    /\ 100 * OrderStat(xs, 1) <= ToUnits(stat, 2)
    /\ ToUnits(stat, 2) <= 100 * OrderStat(xs, Len(xs))

\* C29: the percentile of n sorted values at fraction p is the linear
\* interpolation at index p * (n - 1) between the values at the floor and at
\* the ceiling of that index, it lies between the least and the greatest
\* value, and for an empty list every statistic is None, not an error.
C29_PercentileInterpolates ==
    seed.pc = "returned" =>
        LET stats == seed.stats[1]
            xs    == [i \in DOMAIN seed.values |-> ToUnits(seed.values[i], 0)]
        IN  IF xs = <<>>
            THEN stats = [median |-> None, avg |-> None, p25 |-> None, p75 |-> None]
            ELSE /\ IsPercentile(stats.p25, xs, 1)
                 /\ IsPercentile(stats.median, xs, 2)
                 /\ IsPercentile(stats.p75, xs, 3)

\* compute_percentiles([100, 200, 300, 400]) has returned the median 250.
C29_Witness ==
    /\ seed.pc = "returned"
    /\ seed.values = <<Dec(100, 0), Dec(200, 0), Dec(300, 0), Dec(400, 0)>>
    /\ ToUnits(seed.stats[1].median, 2) = 25000
    /\ ToUnits(seed.stats[1].p25, 2) = 17500

----------------------------------------------------------------------------
(* Properties of the heatmap within a box. *)

\* The point lies within the box <<min_lon, min_lat, max_lon, max_lat>>.
InsideBox(point, box) ==
    /\ FLe(box[1], point.lon) /\ FLe(point.lon, box[3])
    /\ FLe(box[2], point.lat) /\ FLe(point.lat, box[4])

====
